---------------------------- MODULE Spec2Model ----------------------------
(***************************************************************************)
(* Model of the per-minute trading decision engine (src/strategy.py) and   *)
(* of the HTTP handlers that drive it (src/app.py).                        *)
(*                                                                         *)
(* Conventions                                                             *)
(*  - A dict key that may be absent is an option: <<>> when the key is     *)
(*    absent, <<v>> when it is present with value v; Get is dict.get.      *)
(*  - Percentages that the code holds as floats are exact rationals        *)
(*    [n, d] (d > 0, lowest terms) or, for unrealized_pnl_pct, integers    *)
(*    in hundredths of a percent (PctScale).  Balances are whole dollars.  *)
(*  - A candle is the record of the two positions the code reads:          *)
(*    close = c[4], volume = c[5].                                         *)
(*  - A raised Python exception is the outcome [exc |-> message], the      *)
(*    message being the sequence of the characters of str(e).              *)
(***************************************************************************)
EXTENDS Integers, Sequences, FiniteSets, TLC

VARIABLES
  daily_state,   \* strategy.daily_state, the per-day session state
  tick_pc,       \* "idle" | "received" | "replied": the /tick request cycle
  data,          \* the body of the /tick request in flight or last answered
  outcome,       \* what decide_action did for it: [ret |-> d] or [exc |-> m]
  response,      \* the body /tick answered with
  resent,        \* TRUE when the request in flight repeats the last one
  session_day,   \* history: the day of the ticks since the last reset
  threads,       \* SpecThreads: the control state of each handler thread
  shared_start,  \* SpecThreads: the session state when the threads started
  args,          \* the arguments of the function a function specification calls
  result,        \* what that function did: [ret |-> v] or [exc |-> m]
  book           \* SpecBook: the collaborator's position and its count of opens

vars == <<daily_state, tick_pc, data, outcome, response, resent, session_day,
          threads, shared_start, args, result, book>>

---------------------------------------------------------------------------
(* Options, sequences and small arithmetic helpers.                        *)

None == <<>>

Some(v) == <<v>>

IsNone(opt) == Len(opt) = 0

Get(opt, default) == IF Len(opt) = 0 THEN default ELSE opt[1]

Abs(x) == IF x < 0 THEN -x ELSE x

Min(a, b) == IF a <= b THEN a ELSE b

Max(a, b) == IF a >= b THEN a ELSE b

\* candles[-n:] of Python, for n >= 1
LastN(s, n) == IF Len(s) <= n THEN s ELSE SubSeq(s, Len(s) - n + 1, Len(s))

\* s[:n] of Python
Take(s, n) == SubSeq(s, 1, Min(n, Len(s)))

\* int(x) of Python for the quotient num / den, den > 0: truncation to zero
TruncDiv(num, den) == IF num >= 0 THEN num \div den ELSE -((-num) \div den)

RECURSIVE GCD(_, _)
GCD(a, b) == IF b = 0 THEN a ELSE GCD(b, a % b)

\* the rational n / d (d # 0) in lowest terms with a positive denominator
Rat(n, d) ==
  LET g == GCD(Abs(n), Abs(d))
      s == IF d < 0 THEN -1 ELSE 1
  IN  [n |-> s * (n \div g), d |-> s * (d \div g)]

RatInt(k) == [n |-> k, d |-> 1]

RatAdd(a, b) ==
  LET g == GCD(a.d, b.d)
  IN  Rat(a.n * (b.d \div g) + b.n * (a.d \div g), (a.d \div g) * b.d)

RatNeg(a) == [n |-> -a.n, d |-> a.d]

RatSub(a, b) == RatAdd(a, RatNeg(b))

RatMul(a, b) ==
  LET g1 == GCD(Abs(a.n), b.d)
      g2 == GCD(Abs(b.n), a.d)
  IN  Rat((a.n \div g1) * (b.n \div g2), (a.d \div g2) * (b.d \div g1))

RatDivInt(a, k) == RatMul(a, [n |-> 1, d |-> k])

RatAbs(a) == [n |-> Abs(a.n), d |-> a.d]

\* n1 / d1 < n2 / d2 for d1, d2 > 0, by integer parts and then the
\* reciprocals of the fractional parts, which never leaves the integers' range
RECURSIVE FracLess(_, _, _, _)
FracLess(n1, d1, n2, d2) ==
  LET q1 == n1 \div d1
      q2 == n2 \div d2
      r1 == n1 % d1
      r2 == n2 % d2
  IN  IF q1 # q2 THEN q1 < q2
      ELSE IF r2 = 0 THEN FALSE
      ELSE IF r1 = 0 THEN TRUE
      ELSE FracLess(d2, r2, d1, r1)

RatLess(a, b) == FracLess(a.n, a.d, b.n, b.d)

RatLeq(a, b) == ~RatLess(b, a)

RatMin(a, b) == IF RatLeq(a, b) THEN a ELSE b

\* s[lo] + ... + s[hi], summed by halves to keep the recursion shallow
RECURSIVE RatSumRange(_, _, _)
RatSumRange(s, lo, hi) ==
  IF lo > hi THEN RatInt(0)
  ELSE IF lo = hi THEN s[lo]
  ELSE LET mid == (lo + hi) \div 2
       IN  RatAdd(RatSumRange(s, lo, mid), RatSumRange(s, mid + 1, hi))

\* sum(s) of a list of rationals
RatSum(s) == RatSumRange(s, 1, Len(s))

RECURSIVE IntSumRange(_, _, _)
IntSumRange(s, lo, hi) ==
  IF lo > hi THEN 0
  ELSE IF lo = hi THEN s[lo]
  ELSE LET mid == (lo + hi) \div 2
       IN  IntSumRange(s, lo, mid) + IntSumRange(s, mid + 1, hi)

\* sum(s) of a list of integers
IntSum(s) == IntSumRange(s, 1, Len(s))

---------------------------------------------------------------------------
(* Scales and program constants.                                           *)

\* unrealized_pnl_pct is carried in hundredths of a percent
PctScale == 10 * 10

MaxDailyTrades == 30

InitialBalanceDefault == 1000

BalanceDefault == 1000

LastTradeMinuteInit == -999

DailyLossLimit == -40

ProfitLockThreshold == 40

CoolingLosses == 3

CoolingMinutes == 30

DrawdownLimit == 25

TradingStartDelay == 30

TradingEndBuffer == 45

ProfitLockTrades == 15

---------------------------------------------------------------------------
(* str(e) of the exceptions the inputs of this model can raise.            *)

\* ZeroDivisionError of int / int
MsgDivisionByZero ==
  <<"d", "i", "v", "i", "s", "i", "o", "n", " ", "b", "y", " ", "z", "e",
    "r", "o">>

\* KeyError of info["change_24h_pct"]
MsgKeyError ==
  <<"'", "c", "h", "a", "n", "g", "e", "_", "2", "4", "h", "_", "p", "c",
    "t", "'">>

\* ValueError of f"{'?':3d}"
MsgFormatCode ==
  <<"U", "n", "k", "n", "o", "w", "n", " ", "f", "o", "r", "m", "a", "t",
    " ", "c", "o", "d", "e", " ", "'", "d", "'", " ", "f", "o", "r", " ",
    "o", "b", "j", "e", "c", "t", " ", "o", "f", " ", "t", "y", "p", "e",
    " ", "'", "s", "t", "r", "'">>

\* TypeError of None > peak_balance (peak_balance a float, as after the
\* module is loaded; with an int peak the message ends 'int' and has the
\* same first 50 characters)
MsgNoneCompare ==
  <<"'", ">", "'", " ", "n", "o", "t", " ", "s", "u", "p", "p", "o", "r",
    "t", "e", "d", " ", "b", "e", "t", "w", "e", "e", "n", " ", "i", "n",
    "s", "t", "a", "n", "c", "e", "s", " ", "o", "f", " ", "'", "N", "o",
    "n", "e", "T", "y", "p", "e", "'", " ", "a", "n", "d", " ", "'", "f",
    "l", "o", "a", "t", "'">>

---------------------------------------------------------------------------
(* Session state.                                                          *)

\* strategy.daily_state as the module defines it
DailyStateInit ==
  [trades_today       |-> 0,
   max_daily_trades   |-> MaxDailyTrades,
   balance_at_start   |-> InitialBalanceDefault,
   peak_balance       |-> InitialBalanceDefault,
   profit_locked      |-> FALSE,
   consecutive_losses |-> 0,
   consecutive_wins   |-> 0,
   last_trade_minute  |-> LastTradeMinuteInit,
   winning_trades     |-> <<>>,
   losing_trades      |-> <<>>]

\* reset_daily_state(initial_balance): every key but max_daily_trades
ResetDailyState(ds, initial_balance) ==
  [ds EXCEPT !.trades_today       = 0,
             !.balance_at_start   = initial_balance,
             !.peak_balance       = initial_balance,
             !.profit_locked      = FALSE,
             !.consecutive_losses = 0,
             !.consecutive_wins   = 0,
             !.last_trade_minute  = LastTradeMinuteInit,
             !.winning_trades     = <<>>,
             !.losing_trades      = <<>>]


---------------------------------------------------------------------------
(* Technical indicators (pure functions of a candle history).              *)

RatInv(a) == Rat(a.d, a.n)

RatDiv(a, b) == RatMul(a, RatInv(b))

Closes(candles) == [i \in 1..Len(candles) |-> candles[i].close]

Volumes(candles) == [i \in 1..Len(candles) |-> candles[i].volume]

\* the per-bar gains of calculate_rsi: change if change > 0 else 0
Gains(closes) ==
  [i \in 1..(Len(closes) - 1) |->
     IF closes[i + 1] - closes[i] > 0 THEN closes[i + 1] - closes[i] ELSE 0]

\* the per-bar losses of calculate_rsi: 0 if change > 0 else abs(change)
Losses(closes) ==
  [i \in 1..(Len(closes) - 1) |->
     IF closes[i + 1] - closes[i] > 0 THEN 0
     ELSE Abs(closes[i + 1] - closes[i])]

\* calculate_rsi(candles, period)
CalculateRsi(candles, period) ==
  IF Len(candles) < period + 1 THEN RatInt(50)
  ELSE
    LET closes   == Closes(LastN(candles, period + 1))
        avg_gain == Rat(IntSum(Gains(closes)), period)
        avg_loss == Rat(IntSum(Losses(closes)), period)
    IN  IF avg_loss.n = 0 THEN RatInt(100)
        ELSE
          LET rs == RatDiv(avg_gain, avg_loss)
          IN  RatSub(RatInt(100),
                     RatDiv(RatInt(100), RatAdd(RatInt(1), rs)))

RECURSIVE SeqMax(_)
SeqMax(s) == IF Len(s) = 1 THEN s[1] ELSE Max(s[1], SeqMax(Tail(s)))

\* the trends list of calculate_trend_strength: one percentage per period
\* whose window fits and whose start price is not 0
RECURSIVE Trends(_, _)
Trends(candles, periods) ==
  IF Len(periods) = 0 THEN <<>>
  ELSE
    LET period == periods[1]
        rest   == Trends(candles, Tail(periods))
    IN  IF Len(candles) >= period
        THEN LET recent      == LastN(candles, period)
                 start_price == recent[1].close
                 end_price   == recent[Len(recent)].close
             IN  IF start_price # 0
                 THEN <<RatMul(Rat(end_price - start_price, start_price),
                               RatInt(100))>> \o rest
                 ELSE rest
        ELSE rest

RatAbsSeq(s) == [i \in 1..Len(s) |-> RatAbs(s[i])]

\* calculate_trend_strength(candles, periods)
CalculateTrendStrength(candles, periods) ==
  IF Len(candles) < SeqMax(periods)
  THEN [direction |-> 0, strength |-> RatInt(0), aligned |-> FALSE]
  ELSE
    LET trends == Trends(candles, periods)
    IN  IF Len(trends) = 0
        THEN [direction |-> 0, strength |-> RatInt(0), aligned |-> FALSE]
        ELSE
          LET all_positive == \A i \in 1..Len(trends) : trends[i].n > 0
              all_negative == \A i \in 1..Len(trends) : trends[i].n < 0
          IN  [direction |-> IF all_positive THEN 1
                             ELSE IF all_negative THEN -1 ELSE 0,
               strength  |-> RatDivInt(RatSum(RatAbsSeq(trends)), Len(trends)),
               aligned   |-> all_positive \/ all_negative,
               trends    |-> trends]

\* calculate_volume_trend(candles, period)
CalculateVolumeTrend(candles, period) ==
  IF Len(candles) < period * 2
  THEN [ratio |-> RatInt(1), increasing |-> FALSE]
  ELSE
    LET recent_volume == IntSum(Volumes(LastN(candles, period)))
        older_volume  ==
          IntSum(Volumes(Take(LastN(candles, period * 2), period)))
    IN  IF older_volume = 0
        THEN [ratio |-> RatInt(1), increasing |-> FALSE]
        ELSE
          LET ratio == Rat(recent_volume, older_volume)
          IN  [ratio           |-> ratio,
               increasing      |-> RatLess(Rat(12, 10), ratio),
               strong_increase |-> RatLess(Rat(15, 10), ratio)]

\* the returns list of calculate_volatility: bars whose previous close is 0
\* are skipped
Returns(closes) ==
  LET bars  == [i \in 1..(Len(closes) - 1) |-> <<closes[i], closes[i + 1]>>]
      valid == SelectSeq(bars, LAMBDA b : b[1] # 0)
  IN  [i \in 1..Len(valid) |-> Rat(valid[i][2] - valid[i][1], valid[i][1])]

\* numpy.std(returns) ** 2: the mean of the squared deviations from the mean
Variance(returns) ==
  LET n    == Len(returns)
      mean == RatDivInt(RatSum(returns), n)
      dev2 == [i \in 1..n |->
                 RatMul(RatSub(returns[i], mean), RatSub(returns[i], mean))]
  IN  RatDivInt(RatSum(dev2), n)

\* calculate_volatility(candles, period), squared: the code returns
\* std(returns) * 100, whose square root is not rational; every use of it
\* is a comparison with a constant >= 0, made here on the squares
CalculateVolatilitySq(candles, period) ==
  IF Len(candles) < period THEN RatInt(0)
  ELSE
    LET returns == Returns(Closes(LastN(candles, period)))
    IN  IF Len(returns) = 0 THEN RatInt(0)
        ELSE RatMul(Variance(returns), RatInt(100 * 100))

---------------------------------------------------------------------------
(* Entry logic.                                                            *)

Returned(v) == [ret |-> v]

Raised(msg) == [exc |-> msg]

HasRaised(r) == "exc" \in DOMAIN r

\* the composite score of analyze_ticker
TotalScore(change_24h, trend, volume, rsi) ==
  LET momentum_score == RatMul(RatInt(Abs(change_24h)), Rat(4, 10))
      trend_score    == RatMul(trend.strength, Rat(3, 10))
      volume_score   ==
        RatMul(RatMul(RatMin(volume.ratio, RatInt(2)), RatInt(10)), Rat(2, 10))
      rsi_score      ==
        RatMul(RatSub(RatInt(50), RatAbs(RatSub(rsi, RatInt(50)))), Rat(1, 10))
  IN  RatAdd(RatAdd(RatAdd(momentum_score, trend_score), volume_score),
             rsi_score)

\* Faulty variant of AnalyzeFilters: the 24h change need not match the
\* direction of the trend.
AnalyzeFiltersAnyTrend(ticker, change_24h, candles) ==
  IF Abs(change_24h) < 20 \/ Abs(change_24h) > 100 THEN None
  ELSE
    LET Filters(rsi, trend, volume, volatility) ==
          IF ~trend.aligned THEN None
          ELSE IF RatLess(volume.ratio, Rat(8, 10)) THEN None
          ELSE IF change_24h > 0
                  /\ (RatLess(RatInt(80), rsi) \/ RatLess(rsi, RatInt(40)))
               THEN None
          ELSE IF ~(change_24h > 0)
                  /\ (RatLess(rsi, RatInt(20)) \/ RatLess(RatInt(60), rsi))
               THEN None
          ELSE Some([ticker        |-> ticker,
                     score         |-> TotalScore(change_24h, trend, volume,
                                                  rsi),
                     change_24h    |-> change_24h,
                     rsi           |-> rsi,
                     trend         |-> trend,
                     volume        |-> volume,
                     volatility_sq |-> volatility,
                     direction     |-> IF change_24h > 0 THEN "LONG"
                                       ELSE "SHORT"])
    IN  Filters(CalculateRsi(candles, 14),
                CalculateTrendStrength(candles, <<15, 30, 60>>),
                CalculateVolumeTrend(candles, 30),
                CalculateVolatilitySq(candles, 30))

\* analyze_ticker(ticker, info, history) once the candles are long enough
\* and info["change_24h_pct"] is there: the filters and the analysis dict
AnalyzeFilters(ticker, change_24h, candles) ==
  IF Abs(change_24h) < 20 \/ Abs(change_24h) > 100 THEN None
  ELSE
    LET Filters(rsi, trend, volume, volatility) ==
          IF ~trend.aligned THEN None
          ELSE IF change_24h > 0 /\ trend.direction < 0 THEN None
          ELSE IF change_24h < 0 /\ trend.direction > 0 THEN None
          ELSE IF RatLess(volume.ratio, Rat(8, 10)) THEN None
          ELSE IF change_24h > 0
                  /\ (RatLess(RatInt(80), rsi) \/ RatLess(rsi, RatInt(40)))
               THEN None
          ELSE IF ~(change_24h > 0)
                  /\ (RatLess(rsi, RatInt(20)) \/ RatLess(RatInt(60), rsi))
               THEN None
          ELSE Some([ticker        |-> ticker,
                     score         |-> TotalScore(change_24h, trend, volume,
                                                  rsi),
                     change_24h    |-> change_24h,
                     rsi           |-> rsi,
                     trend         |-> trend,
                     volume        |-> volume,
                     volatility_sq |-> volatility,
                     direction     |-> IF change_24h > 0 THEN "LONG"
                                       ELSE "SHORT"])
    IN  Filters(CalculateRsi(candles, 14),
                CalculateTrendStrength(candles, <<15, 30, 60>>),
                CalculateVolumeTrend(candles, 30),
                CalculateVolatilitySq(candles, 30))

\* analyze_ticker(ticker, info, history): Returned(None), Returned(Some(a))
\* or the KeyError of info["change_24h_pct"]
AnalyzeTicker(ticker, info, history) ==
  LET candles == IF ticker \in DOMAIN history THEN history[ticker] ELSE <<>>
  IN  IF Len(candles) < 60 THEN Returned(None)
      ELSE IF IsNone(info.change_24h_pct) THEN Raised(MsgKeyError)
      ELSE Returned(AnalyzeFilters(ticker, info.change_24h_pct[1], candles))

\* the loop of select_best_entry: the candidates in the order of
\* qualifying_tickers, or the exception the first failing analysis raises
RECURSIVE Candidates(_, _, _)
Candidates(market_data, qualifying_tickers, history) ==
  IF Len(qualifying_tickers) = 0 THEN Returned(<<>>)
  ELSE
    LET ticker == qualifying_tickers[1]
        rest   == Tail(qualifying_tickers)
    IN  IF ticker \notin DOMAIN market_data
        THEN Candidates(market_data, rest, history)
        ELSE
          LET Join(analysis, more) ==
                IF HasRaised(analysis) THEN analysis
                ELSE IF HasRaised(more) THEN more
                ELSE Returned(analysis.ret \o more.ret)
          IN  Join(AnalyzeTicker(ticker, market_data[ticker], history),
                   Candidates(market_data, rest, history))

\* max(candidates, key=score): the first candidate of maximal score
RECURSIVE MaxByScore(_)
MaxByScore(candidates) ==
  IF Len(candidates) = 1 THEN candidates[1]
  ELSE
    LET Better(best) ==
          IF RatLess(candidates[1].score, best.score) THEN best
          ELSE candidates[1]
    IN  Better(MaxByScore(Tail(candidates)))

\* select_best_entry(market_data, qualifying_tickers, history)
SelectBestEntry(market_data, qualifying_tickers, history) ==
  LET Threshold(best) ==
        IF RatLess(best.score, RatInt(15)) THEN Returned(None)
        ELSE Returned(Some(best))
      Select(candidates) ==
        IF HasRaised(candidates) THEN candidates
        ELSE IF Len(candidates.ret) = 0 THEN Returned(None)
        ELSE Threshold(MaxByScore(candidates.ret))
  IN  Select(Candidates(market_data, qualifying_tickers, history))

\* the base (leverage, size_pct) ladder of calculate_position_size
BaseSizing(change_24h, volatility_sq) ==
  IF change_24h > 80 \/ RatLess(RatInt(8 * 8), volatility_sq)
  THEN [leverage |-> 2, size_pct |-> 25]
  ELSE IF change_24h > 60 \/ RatLess(RatInt(6 * 6), volatility_sq)
  THEN [leverage |-> 3, size_pct |-> 30]
  ELSE IF change_24h > 40 \/ RatLess(RatInt(4 * 4), volatility_sq)
  THEN [leverage |-> 4, size_pct |-> 40]
  ELSE IF change_24h > 25
  THEN [leverage |-> 5, size_pct |-> 50]
  ELSE [leverage |-> 6, size_pct |-> 60]

\* Faulty variant of LosingStreakSizing: the size is halved.
LosingStreakSizingHalf(ds, sizing) ==
  IF ds.consecutive_losses >= 2
  THEN [leverage |-> Max(2, sizing.leverage - 1),
        size_pct |-> TruncDiv(sizing.size_pct * 5, 10)]
  ELSE sizing

\* the losing-streak modifier
LosingStreakSizing(ds, sizing) ==
  IF ds.consecutive_losses >= 2
  THEN [leverage |-> Max(2, sizing.leverage - 1),
        size_pct |-> TruncDiv(sizing.size_pct * 6, 10)]
  ELSE sizing

\* the drawdown modifier: balance_at_start # 0 here
DrawdownSizing(ds, sizing, current_balance) ==
  IF RatLess(Rat(2, 10),
             Rat(ds.balance_at_start - current_balance, ds.balance_at_start))
      THEN [leverage |-> Max(2, sizing.leverage - 1),
            size_pct |-> TruncDiv(sizing.size_pct * 5, 10)]
      ELSE sizing

\* the winning-streak modifier
WinningStreakSizing(ds, sizing) ==
  IF ds.consecutive_wins >= 2
  THEN [sizing EXCEPT !.size_pct = Min(100, TruncDiv(sizing.size_pct * 11, 10))]
  ELSE sizing

\* calculate_position_size(analysis, current_balance), reading daily_state
CalculatePositionSize(ds, analysis, current_balance) ==
  IF ds.balance_at_start = 0 THEN Raised(MsgDivisionByZero)
  ELSE Returned(WinningStreakSizing(
         ds,
         DrawdownSizing(
           ds,
           LosingStreakSizing(
             ds,
             BaseSizing(Abs(analysis.change_24h), analysis.volatility_sq)),
           current_balance)))

---------------------------------------------------------------------------
(* Exit logic.                                                             *)

\* Faulty variant of StopLossPct: the flat -20 at every leverage.
StopLossPctFlat(leverage) == RatInt(-20)

\* the stop-loss threshold of should_close_position, in percent; leverage # 0
StopLossPct(leverage) ==
  IF leverage <= 3 THEN RatInt(-20) ELSE Rat(-15, leverage)

\* Faulty variant of ShouldClosePosition: one profit tier, at 8%.
ShouldCloseOneTier(position) ==
  LET pnl_pct  == Get(position.unrealized_pnl_pct, 0)
      leverage == Get(position.leverage, 1)
      pnl      == Rat(pnl_pct, PctScale)
  IN  IF pnl_pct >= 8 * PctScale
      THEN Returned([close |-> TRUE, reason |-> <<"Profit target: ", pnl_pct>>])
      ELSE IF leverage = 0 THEN Raised(MsgDivisionByZero)
      ELSE IF RatLeq(pnl, StopLossPct(leverage))
      THEN Returned([close |-> TRUE, reason |-> <<"Stop loss: ", pnl_pct>>])
      ELSE IF pnl_pct < -3 * PctScale /\ RatLess(StopLossPct(leverage), pnl)
      THEN Returned([close |-> TRUE,
                     reason |-> <<"Early exit on small loss: ", pnl_pct>>])
      ELSE Returned([close |-> FALSE, reason |-> <<"Hold position">>])

\* should_close_position(position): Returned([close, reason]) or the
\* ZeroDivisionError of -15 / leverage
ShouldClosePosition(position) ==
  LET pnl_pct  == Get(position.unrealized_pnl_pct, 0)
      leverage == Get(position.leverage, 1)
      pnl      == Rat(pnl_pct, PctScale)
  IN  IF pnl_pct >= 15 * PctScale
      THEN Returned([close |-> TRUE,
                     reason |-> <<"Major profit target: ", pnl_pct>>])
      ELSE IF pnl_pct >= 8 * PctScale
      THEN Returned([close |-> TRUE, reason |-> <<"Profit target: ", pnl_pct>>])
      ELSE IF pnl_pct >= 5 * PctScale /\ pnl_pct < 2 * PctScale
      THEN Returned([close |-> TRUE, reason |-> <<"Trailing stop from peak">>])
      ELSE IF leverage = 0 THEN Raised(MsgDivisionByZero)
      ELSE IF RatLeq(pnl, StopLossPct(leverage))
      THEN Returned([close |-> TRUE, reason |-> <<"Stop loss: ", pnl_pct>>])
      ELSE IF pnl_pct < -3 * PctScale /\ RatLess(StopLossPct(leverage), pnl)
      THEN Returned([close |-> TRUE,
                     reason |-> <<"Early exit on small loss: ", pnl_pct>>])
      ELSE Returned([close |-> FALSE, reason |-> <<"Hold position">>])

---------------------------------------------------------------------------
(* decide_action.  Each stage below is one block of the function, in the   *)
(* order of the code from the last block to the first; a stage either      *)
(* returns [ds |-> session state, out |-> outcome] or goes on to the next. *)

\* data.get("position", {})
Position(snapshot) ==
  Get(snapshot.position,
      [is_open |-> FALSE, unrealized_pnl_pct |-> None, leverage |-> None])

\* position.get("is_open")
IsOpen(snapshot) == Position(snapshot).is_open

\* position.get("unrealized_pnl_pct", 0)
PnlPctOf(snapshot) == Get(Position(snapshot).unrealized_pnl_pct, 0)

\* data.get("account", {}).get("balance", 1000): [num |-> b] or [null |-> TRUE]
Balance(snapshot) ==
  Get(Get(snapshot.account, [balance |-> None]).balance,
      [num |-> BalanceDefault])

IsNull(json) == "null" \in DOMAIN json

MinuteOfDay(snapshot) == Get(snapshot.minute_of_day, 0)

MinutesLeft(snapshot) == Get(snapshot.minutes_remaining, 0)

Decision(action, reason) == [action |-> action, reason |-> reason]

Done(ds, decision) == [ds |-> ds, out |-> Returned(decision)]

Fault(ds, msg) == [ds |-> ds, out |-> Raised(msg)]

\* Faulty variant of CloseOrHold: closes whether or not a position is open.
CloseAlways(ds, snapshot, close_reason, hold_reason) ==
  Done(ds, Decision("CLOSE", <<close_reason>>))

\* "CLOSE" with the one reason if a position is open, else "HOLD" with the other
CloseOrHold(ds, snapshot, close_reason, hold_reason) ==
  IF IsOpen(snapshot) THEN Done(ds, Decision("CLOSE", <<close_reason>>))
  ELSE Done(ds, Decision("HOLD", <<hold_reason>>))

\* ENTRY LOGIC
EntryLogic(ds, snapshot, current_balance) ==
  LET market_data == Get(snapshot.market_data, <<>>)
      qualifying  == Get(snapshot.qualifying_tickers, <<>>)
      history     == Get(snapshot.history, <<>>)
  IN  IF DOMAIN market_data = {}
      THEN Done(ds, Decision("HOLD", <<"No market data">>))
      ELSE IF Len(qualifying) = 0
      THEN Done(ds, Decision("HOLD", <<"No qualifying tickers">>))
      ELSE
        LET Open(best, sizing) ==
              IF HasRaised(sizing) THEN Fault(ds, sizing.exc)
              ELSE Done(ds,
                     [action   |-> IF best.direction = "LONG"
                                   THEN "OPEN_LONG" ELSE "OPEN_SHORT",
                      ticker   |-> best.ticker,
                      leverage |-> sizing.ret.leverage,
                      size_pct |-> sizing.ret.size_pct,
                      reason   |-> <<"Score: ", best.score, ", RSI: ",
                                     best.rsi, ", Vol: ",
                                     best.volume.ratio, "x">>])
            Enter(entry) ==
              IF HasRaised(entry) THEN Fault(ds, entry.exc)
              ELSE IF IsNone(entry.ret)
              THEN Done(ds, Decision("HOLD", <<"No valid setups found">>))
              ELSE Open(entry.ret[1],
                        CalculatePositionSize(ds, entry.ret[1],
                                              current_balance))
        IN  Enter(SelectBestEntry(market_data, qualifying, history))

\* Faulty variant of RealizedClose: a win leaves the loss streak standing and
\* a loss leaves the win streak standing.
RealizedCloseKeepStreak(ds, pnl_pct, minute_of_day) ==
  LET streak ==
        IF pnl_pct > 0
        THEN [ds EXCEPT !.consecutive_wins = ds.consecutive_wins + 1,
                        !.winning_trades   = Append(ds.winning_trades, pnl_pct)]
        ELSE [ds EXCEPT !.consecutive_losses = ds.consecutive_losses + 1,
                        !.losing_trades      = Append(ds.losing_trades, pnl_pct)]
  IN  [streak EXCEPT !.trades_today      = ds.trades_today + 1,
                     !.last_trade_minute = minute_of_day]

\* the streak, log and counter updates of a close the exit logic decided
RealizedClose(ds, pnl_pct, minute_of_day) ==
  LET streak ==
        IF pnl_pct > 0
        THEN [ds EXCEPT !.consecutive_wins   = ds.consecutive_wins + 1,
                        !.consecutive_losses = 0,
                        !.winning_trades     = Append(ds.winning_trades, pnl_pct)]
        ELSE [ds EXCEPT !.consecutive_losses = ds.consecutive_losses + 1,
                        !.consecutive_wins   = 0,
                        !.losing_trades      = Append(ds.losing_trades, pnl_pct)]
  IN  [streak EXCEPT !.trades_today      = ds.trades_today + 1,
                     !.last_trade_minute = minute_of_day]

\* Faulty variant of PositionManagement: the trade is counted for every open
\* position the exit logic looks at, closed or not.
PositionManagementCounting(ds, snapshot, current_balance) ==
  IF IsOpen(snapshot)
  THEN
    LET position == Position(snapshot)
        pnl_pct  == Get(position.unrealized_pnl_pct, 0)
        exit     == ShouldClosePosition(position)
    IN  IF HasRaised(exit) THEN Fault(ds, exit.exc)
        ELSE IF exit.ret.close
        THEN Done(RealizedClose(ds, pnl_pct, MinuteOfDay(snapshot)),
                  Decision("CLOSE", exit.ret.reason))
        ELSE Done([ds EXCEPT !.trades_today = ds.trades_today + 1],
                  Decision("HOLD", <<"Monitoring: ", pnl_pct>>))
  ELSE EntryLogic(ds, snapshot, current_balance)

\* POSITION MANAGEMENT
PositionManagement(ds, snapshot, current_balance) ==
  IF IsOpen(snapshot)
  THEN
    LET pnl_pct == PnlPctOf(snapshot)
        Manage(exit) ==
          IF HasRaised(exit) THEN Fault(ds, exit.exc)
          ELSE IF exit.ret.close
          THEN Done(RealizedClose(ds, pnl_pct, MinuteOfDay(snapshot)),
                    Decision("CLOSE", exit.ret.reason))
          ELSE Done(ds, Decision("HOLD", <<"Monitoring: ", pnl_pct>>))
    IN  Manage(ShouldClosePosition(Position(snapshot)))
  ELSE EntryLogic(ds, snapshot, current_balance)

\* Faulty variant of CB7ProfitLockMode: a locked profit throttles nothing.
CB7Unthrottled(ds, snapshot, current_balance) ==
  PositionManagement(ds, snapshot, current_balance)

\* CB7: Profit lock mode
CB7ProfitLockMode(ds, snapshot, current_balance) ==
  IF ds.profit_locked /\ ds.trades_today >= ProfitLockTrades
  THEN CloseOrHold(ds, snapshot, "Profit protected - reducing activity",
                   "Protecting +40% profit")
  ELSE PositionManagement(ds, snapshot, current_balance)

\* Faulty variant of CB6TimeFilters: no wait after the session opens.
CB6WithoutDelay(ds, snapshot, current_balance) ==
  IF MinutesLeft(snapshot) < TradingEndBuffer
  THEN CloseOrHold(ds, snapshot, "End of day risk management",
                   "Too close to EOD")
  ELSE CB7ProfitLockMode(ds, snapshot, current_balance)

\* CB6: Time-based filters
CB6TimeFilters(ds, snapshot, current_balance) ==
  IF MinuteOfDay(snapshot) < TradingStartDelay
  THEN Done(ds, Decision("HOLD", <<"Market opening period - waiting">>))
  ELSE IF MinutesLeft(snapshot) < TradingEndBuffer
  THEN CloseOrHold(ds, snapshot, "End of day risk management",
                   "Too close to EOD")
  ELSE CB7ProfitLockMode(ds, snapshot, current_balance)

\* CB5: Drawdown protection
CB5Drawdown(ds, snapshot, current_balance) ==
  IF ds.peak_balance = 0 THEN Fault(ds, MsgDivisionByZero)
  ELSE
    LET drawdown_from_peak ==
          RatMul(Rat(ds.peak_balance - current_balance, ds.peak_balance),
                 RatInt(100))
    IN  IF RatLess(RatInt(DrawdownLimit), drawdown_from_peak)
           /\ IsOpen(snapshot)
        THEN Done(ds, Decision("CLOSE",
                               <<"Drawdown protection (25% from peak)">>))
        ELSE CB6TimeFilters(ds, snapshot, current_balance)

\* Faulty variant of CB4Cooling: an expired cooldown clears the streak only
\* after the rest of the call has run with the streak still standing.
CB4CoolingLate(ds, snapshot, current_balance) ==
  IF ds.consecutive_losses >= CoolingLosses
  THEN
    LET time_since_last == MinuteOfDay(snapshot) - ds.last_trade_minute
    IN  IF time_since_last < CoolingMinutes
        THEN Done(ds, Decision("HOLD",
                    <<"Cooling off (", CoolingMinutes - time_since_last,
                      "min left)">>))
        ELSE LET r == CB5Drawdown(ds, snapshot, current_balance)
             IN  [r EXCEPT !.ds.consecutive_losses = 0]
  ELSE CB5Drawdown(ds, snapshot, current_balance)

\* Faulty variant of CB4Cooling: the cooldown ends a minute early.
CB4CoolingShort(ds, snapshot, current_balance) ==
  LET time_since_last == MinuteOfDay(snapshot) - ds.last_trade_minute
  IN  IF ds.consecutive_losses >= CoolingLosses
           /\ time_since_last < CoolingMinutes - 1
      THEN Done(ds, Decision("HOLD",
                  <<"Cooling off (", CoolingMinutes - time_since_last,
                    "min left)">>))
      ELSE CB5Drawdown(IF ds.consecutive_losses >= CoolingLosses
                       THEN [ds EXCEPT !.consecutive_losses = 0]
                       ELSE ds,
                       snapshot, current_balance)

\* CB4: Cooling period after consecutive losses
CB4Cooling(ds, snapshot, current_balance) ==
  LET time_since_last == MinuteOfDay(snapshot) - ds.last_trade_minute
  IN  IF ds.consecutive_losses >= CoolingLosses
           /\ time_since_last < CoolingMinutes
      THEN Done(ds, Decision("HOLD",
                  <<"Cooling off (", CoolingMinutes - time_since_last,
                    "min left)">>))
      ELSE CB5Drawdown(IF ds.consecutive_losses >= CoolingLosses
                       THEN [ds EXCEPT !.consecutive_losses = 0]
                       ELSE ds,
                       snapshot, current_balance)

\* Faulty variant of CB3MaxTrades: the gate fires one trade late.
CB3MaxTradesLate(ds, snapshot, current_balance) ==
  IF ds.trades_today > ds.max_daily_trades
  THEN CloseOrHold(ds, snapshot, "Max daily trades reached",
                   "Trade limit reached")
  ELSE CB4Cooling(ds, snapshot, current_balance)

\* CB3: Max trades
CB3MaxTrades(ds, snapshot, current_balance) ==
  IF ds.trades_today >= ds.max_daily_trades
  THEN CloseOrHold(ds, snapshot, "Max daily trades reached",
                   "Trade limit reached")
  ELSE CB4Cooling(ds, snapshot, current_balance)

\* Faulty variant of CB2ProfitLock: the lock follows the balance back down.
CB2ProfitLockFollows(ds, snapshot, current_balance, loss_pct) ==
  CB3MaxTrades([ds EXCEPT !.profit_locked =
                            RatLess(RatInt(ProfitLockThreshold), loss_pct)],
               snapshot, current_balance)

\* CB2: Profit lock
CB2ProfitLock(ds, snapshot, current_balance, loss_pct) ==
  CB3MaxTrades(IF RatLess(RatInt(ProfitLockThreshold), loss_pct)
                    /\ ~ds.profit_locked
               THEN [ds EXCEPT !.profit_locked = TRUE]
               ELSE ds,
               snapshot, current_balance)

\* Faulty variant of CB1DailyLoss: the max-trades check comes first.
CB1AfterMaxTrades(ds, snapshot, current_balance) ==
  IF ds.balance_at_start = 0 THEN Fault(ds, MsgDivisionByZero)
  ELSE IF ds.trades_today >= ds.max_daily_trades
  THEN CloseOrHold(ds, snapshot, "Max daily trades reached",
                   "Trade limit reached")
  ELSE
    LET loss_pct ==
          RatMul(Rat(current_balance - ds.balance_at_start,
                     ds.balance_at_start), RatInt(100))
    IN  IF RatLess(loss_pct, RatInt(DailyLossLimit))
        THEN CloseOrHold(ds, snapshot, "Daily loss limit hit (-40%)",
                         "Daily loss limit - no new trades")
        ELSE CB2ProfitLock(ds, snapshot, current_balance, loss_pct)

\* CB1: Daily loss limit
CB1DailyLoss(ds, snapshot, current_balance) ==
  IF ds.balance_at_start = 0 THEN Fault(ds, MsgDivisionByZero)
  ELSE
    LET loss_pct ==
          RatMul(Rat(current_balance - ds.balance_at_start,
                     ds.balance_at_start), RatInt(100))
    IN  IF RatLess(loss_pct, RatInt(DailyLossLimit))
        THEN CloseOrHold(ds, snapshot, "Daily loss limit hit (-40%)",
                         "Daily loss limit - no new trades")
        ELSE CB2ProfitLock(ds, snapshot, current_balance, loss_pct)

\* Faulty variant of UpdatePeak: the peak follows the balance down as well.
UpdatePeakAlways(ds, current_balance) ==
  [ds EXCEPT !.peak_balance = current_balance]

\* Update peak balance tracking
UpdatePeak(ds, current_balance) ==
  IF current_balance > ds.peak_balance
  THEN [ds EXCEPT !.peak_balance = current_balance]
  ELSE ds

\* decide_action(data) on session state ds
DecideAction(ds, snapshot) ==
  LET balance == Balance(snapshot)
  IN  IF IsNull(balance) THEN Fault(ds, MsgNoneCompare)
      ELSE CB1DailyLoss(UpdatePeak(ds, balance.num), snapshot, balance.num)

---------------------------------------------------------------------------
(* The /tick, /start and /reset handlers of app.py, one request at a time. *)

NoOutcome == [none |-> TRUE]

\* Faulty variant of ErrorResponse: the whole of str(e) is sent.
ErrorResponseFull(msg) ==
  [action |-> "HOLD", reason |-> <<"Error occurred: ", msg>>]

\* the except branch of tick(): a HOLD with the first 50 characters of str(e)
ErrorResponse(msg) ==
  [action |-> "HOLD", reason |-> <<"Error occurred: ", Take(msg, 50)>>]

\* log_trade_decision(data, action, balance): its f"{...:3d}" raises for the
\* '?' it formats when minute_of_day is absent
LogTradeDecision(snapshot) ==
  IF IsNone(snapshot.minute_of_day) THEN Raised(MsgFormatCode)
  ELSE Returned(TRUE)

\* what tick() answers after decide_action ended with outcome out
TickResponse(out, snapshot) ==
  IF HasRaised(out) THEN ErrorResponse(out.exc)
  ELSE IF HasRaised(LogTradeDecision(snapshot))
  THEN ErrorResponse(LogTradeDecision(snapshot).exc)
  ELSE out.ret

---------------------------------------------------------------------------
(* The inputs the collaborator sends.  Prices move on the ladder           *)
(* 8000, 8400, 8820, 9261 (steps of +1/20 and -1/21), which keeps every    *)
(* indicator an exact rational of small terms.                             *)

Candle(close, volume) == [close |-> close, volume |-> volume]

\* n candles at one price
Flat(close, volume, n) == [i \in 1..n |-> Candle(close, volume)]

\* n candles alternating between two prices, the first at price a
Zigzag(a, b, volume, n) ==
  [i \in 1..n |-> Candle(IF i % 2 = 1 THEN a ELSE b, volume)]

\* 60 candles rising 8000 -> 9261 with pullbacks in the last 15
Rising(volume_old, volume_new) ==
  Flat(8000, volume_old, 30) \o Flat(8400, volume_new, 15)
    \o Zigzag(8400, 8820, volume_new, 14) \o Flat(9261, volume_new, 1)

\* 60 candles falling 9261 -> 8000 with rebounds in the last 15
Falling(volume_old, volume_new) ==
  Flat(9261, volume_old, 30) \o Flat(8820, volume_new, 15)
    \o Zigzag(8820, 8400, volume_new, 14) \o Flat(8000, volume_new, 1)

\* 60 candles rising 8000 -> 8820 with pullbacks in all of the last 30
Choppy(volume_old, volume_new) ==
  Flat(8000, volume_old, 30) \o Zigzag(8400, 8000, volume_new, 29)
    \o Flat(8820, volume_new, 1)

\* too short to analyze
Short(volume) == Flat(8000, volume, 10)

Num(b) == [num |-> b]

Null == [null |-> TRUE]

\* data["account"]: absent, without a balance, with a null or a number
Accounts ==
  {None, Some([balance |-> None]), Some([balance |-> Some(Null)])}
    \cup {Some([balance |-> Some(Num(b))]) : b \in {500, 700, 1500}}

OpenPosition(pnl_pct, leverage) ==
  [is_open |-> TRUE, unrealized_pnl_pct |-> pnl_pct, leverage |-> leverage]

ClosedPosition ==
  [is_open |-> FALSE, unrealized_pnl_pct |-> None, leverage |-> None]

\* a win at the major profit target, leverage 4
WinPosition == OpenPosition(Some(16 * PctScale), Some(4))

\* a loss at the stop of leverage 2
LossPosition == OpenPosition(Some(-25 * PctScale), Some(2))

\* data["position"] with a position open
OpenPositions ==
  {Some(WinPosition), Some(LossPosition),
   Some(OpenPosition(None, None)),
   Some(OpenPosition(Some(-4 * PctScale), Some(0))),
   Some(OpenPosition(Some(5 * PctScale), Some(6)))}

\* data["position"] with no position open
NoPositions == {None, Some(ClosedPosition)}

\* (minute_of_day, minutes_remaining) of a 960-minute session
Times ==
  {<<None, None>>, <<Some(10), Some(950)>>, <<Some(30), Some(930)>>,
   <<Some(60), Some(900)>>, <<Some(60), None>>, <<Some(930), Some(30)>>}

Info(change) == [change_24h_pct |-> change]

\* a dict with the one key k
Dict1(k, v) == [x \in {k} |-> v]

\* a dict with the two keys k1, k2
Dict2(k1, v1, k2, v2) == [x \in {k1, k2} |-> IF x = k1 THEN v1 ELSE v2]

Market(market_data, qualifying_tickers, history) ==
  [market_data |-> market_data, qualifying_tickers |-> qualifying_tickers,
   history |-> history]

\* (market_data, qualifying_tickers, history) of a snapshot
Markets ==
  {Market(None, None, None),
   Market(Some(<<>>), Some(<<"AAA">>), None),
   Market(Some(Dict1("AAA", Info(Some(22)))), None, None),
   Market(Some(Dict1("AAA", Info(Some(22)))), Some(<<"AAA">>), None),
   Market(Some(Dict1("AAA", Info(None))), Some(<<"AAA">>),
          Some(Dict1("AAA", Rising(100, 100)))),
   Market(Some(Dict1("AAA", Info(Some(22)))), Some(<<"AAA">>),
          Some(Dict1("AAA", Rising(100, 100)))),
   Market(Some(Dict1("AAA", Info(Some(22)))), Some(<<"AAA">>),
          Some(Dict1("AAA", Choppy(100, 100)))),
   Market(Some(Dict1("BBB", Info(Some(-30)))), Some(<<"CCC", "BBB">>),
          Some(Dict1("BBB", Falling(100, 100)))),
   Market(Some(Dict2("AAA", Info(Some(90)), "BBB", Info(Some(-50)))),
          Some(<<"BBB", "AAA">>),
          Some(Dict2("AAA", Rising(100, 100), "BBB", Falling(100, 100)))),
   Market(Some(Dict2("AAA", Info(Some(70)), "BBB", Info(Some(-50)))),
          Some(<<"AAA", "BBB">>),
          Some(Dict2("AAA", Short(100), "BBB", Falling(100, 100))))}

Snapshot(account, position, time, market) ==
  [account            |-> account,
   position           |-> position,
   minute_of_day      |-> time[1],
   minutes_remaining  |-> time[2],
   market_data        |-> market.market_data,
   qualifying_tickers |-> market.qualifying_tickers,
   history            |-> market.history,
   day                |-> Some(1)]

\* every snapshot of the model: a position open and no market data, or no
\* position open and any market
Snapshots ==
  {Snapshot(a, p, t, Market(None, None, None)) :
     a \in Accounts, p \in OpenPositions, t \in Times}
  \cup {Snapshot(a, p, t, m) :
     a \in Accounts, p \in NoPositions, t \in Times, m \in Markets}


\* the snapshots that drive a day to its end: default, losing and winning
\* balances, a winning and a losing position or none, two minutes 30 apart
DaySnapshots ==
  {Snapshot(a, p, t, Market(None, None, None)) :
     a \in {None, Some([balance |-> Some(Num(500))]),
            Some([balance |-> Some(Num(1500))])},
     p \in {None, Some(WinPosition), Some(LossPosition)},
     t \in {<<Some(30), Some(930)>>, <<Some(60), Some(900)>>}}
  \cup {Snapshot(None, None, <<Some(60), Some(900)>>,
                 Market(Some(Dict1("AAA", Info(Some(22)))), Some(<<"AAA">>),
                        Some(Dict1("AAA", Rising(100, 100)))))}

\* data.get("initial_balance", 1000.0) of /start
InitialBalances == {None, Some(0)}

\* Bounds of the exploration: any snapshot is sent during the first
\* FullInputTrades trades of a day and the DaySnapshots after them; a
\* winning position is sent while fewer than MaxWins wins are logged.
FullInputTrades == 2

MaxWins == 2

\* a winning position is sent while fewer than MaxWins wins are logged
InputAllowed(s) ==
  (IsOpen(s) /\ Get(Position(s).unrealized_pnl_pct, 0) > 0)
    => Len(daily_state.winning_trades) < MaxWins

\* the snapshots the collaborator can send in the current state
Inputs ==
  IF daily_state.trades_today >= FullInputTrades THEN DaySnapshots
  ELSE Snapshots

---------------------------------------------------------------------------
(* Actions.                                                                *)

NoSnapshot == [none |-> TRUE]

\* no function specification is running
NoArgs == [none |-> TRUE]

\* the collaborator of SpecBook holds no position and has opened none
NoBook == [is_open |-> FALSE, leverage |-> 0, opens |-> 0]

\* the service after strategy.py and app.py are loaded
ServiceInit ==
  /\ daily_state = DailyStateInit
  /\ tick_pc = "idle"
  /\ data = NoSnapshot
  /\ outcome = NoOutcome
  /\ response = NoOutcome
  /\ resent = FALSE
  /\ session_day = None
  /\ threads = <<>>
  /\ shared_start = DailyStateInit
  /\ result = NoOutcome
  /\ book = NoBook

Init == ServiceInit /\ args = NoArgs

\* the collaborator posts snapshot s to /tick
Send(s) ==
  /\ tick_pc = "idle"
  /\ tick_pc' = "received"
  /\ data' = s
  /\ outcome' = NoOutcome
  /\ response' = NoOutcome
  /\ resent' = FALSE
  /\ UNCHANGED <<daily_state, session_day, threads, shared_start,
                 args, result, book>>

\* the collaborator posts the snapshot it was just answered for once more
\* (no position open), keeping the first answer to compare
Resend ==
  /\ tick_pc = "replied"
  /\ ~IsOpen(data)
  /\ tick_pc' = "received"
  /\ resent' = TRUE
  /\ UNCHANGED <<daily_state, data, outcome, response, session_day, threads,
                 shared_start,
                 args, result, book>>

\* tick(): decide_action(data), the log line, the answer
Tick ==
  /\ tick_pc = "received"
  /\ \E r \in {DecideAction(daily_state, data)} :
       /\ daily_state' = r.ds
       /\ outcome' = r.out
       /\ response' = TickResponse(r.out, data)
  /\ tick_pc' = "replied"
  /\ session_day' = data.day
  /\ UNCHANGED <<data, resent, threads, shared_start,
                 args, result, book>>

\* the collaborator has read the answer; the next request can come
Deliver ==
  /\ tick_pc = "replied"
  /\ tick_pc' = "idle"
  /\ data' = NoSnapshot
  /\ outcome' = NoOutcome
  /\ response' = NoOutcome
  /\ resent' = FALSE
  /\ UNCHANGED <<daily_state, session_day, threads, shared_start,
                 args, result, book>>

\* start(): reset_daily_state(data.get("initial_balance", 1000.0))
Start(initial_balance) ==
  /\ tick_pc = "idle"
  /\ daily_state' =
       ResetDailyState(daily_state, Get(initial_balance, InitialBalanceDefault))
  /\ tick_pc' = "idle"
  /\ data' = NoSnapshot
  /\ outcome' = NoOutcome
  /\ response' = NoOutcome
  /\ resent' = FALSE
  /\ session_day' = None
  /\ UNCHANGED <<threads, shared_start,
                 args, result, book>>

\* reset(): reset_daily_state()
Reset ==
  /\ tick_pc = "idle"
  /\ daily_state' = ResetDailyState(daily_state, InitialBalanceDefault)
  /\ tick_pc' = "idle"
  /\ data' = NoSnapshot
  /\ outcome' = NoOutcome
  /\ response' = NoOutcome
  /\ resent' = FALSE
  /\ session_day' = None
  /\ UNCHANGED <<threads, shared_start,
                 args, result, book>>

SendAny == \E s \in Inputs : InputAllowed(s) /\ Send(s)

StartAny == \E b \in InitialBalances : Start(b)

Next == SendAny \/ Resend \/ Tick \/ Deliver \/ StartAny \/ Reset

Spec == Init /\ [][Next]_vars

---------------------------------------------------------------------------
(* Days.  The snapshots of SpecDays carry the day identifier of one of     *)
(* MaxDay days; nothing else about the service changes.                    *)

MaxDay == 2

\* a day is followed while fewer than MaxDayTrades trades are counted
MaxDayTrades == 3

\* snapshot s as sent on day d
OnDay(s, d) == [s EXCEPT !.day = Some(d)]

\* the collaborator posts a snapshot of the day it is in or of a later day
SendOnDay ==
  \E s \in DaySnapshots, d \in 1..MaxDay :
    /\ daily_state.trades_today < MaxDayTrades
    /\ d >= Get(session_day, 1)
    /\ InputAllowed(s)
    /\ Send(OnDay(s, d))

NextDays == SendOnDay \/ Tick \/ Deliver \/ Reset

SpecDays == Init /\ [][NextDays]_vars

---------------------------------------------------------------------------
(* Threads.  app.run() serves every request in a thread of its own and     *)
(* neither app.py nor strategy.py takes a lock, so two handlers can be     *)
(* inside decide_action and reset_daily_state at once, the interpreter     *)
(* switching between them after any statement.  A thread below takes one   *)
(* step per statement that reads or writes daily_state; x += 1 is the two  *)
(* steps it is for the interpreter: a load of x and a store of the sum.    *)
(* Blocks that only read are taken in one step.                            *)

TickRequest(s) == [kind |-> "tick", snapshot |-> s, initial_balance |-> 0]

ResetRequest(initial_balance) ==
  [kind |-> "reset", snapshot |-> NoSnapshot,
   initial_balance |-> initial_balance]

\* the keys reset_daily_state assigns, in its order
ResetOrder ==
  <<"trades_today", "balance_at_start", "peak_balance", "profit_locked",
    "consecutive_losses", "consecutive_wins", "last_trade_minute",
    "winning_trades", "losing_trades">>

\* a thread at the first statement of its handler
Thread(req) ==
  [req      |-> req,
   pc       |-> IF req.kind = "tick" THEN "peak" ELSE ResetOrder[1],
   tmp      |-> 0,
   loss_pct |-> RatInt(0),
   out      |-> NoOutcome]

\* the thread goes on to statement pc
Goto(ds, th, pc) == [ds |-> ds, th |-> [th EXCEPT !.pc = pc]]

\* the thread's call ends as r does
End(r, th) == [ds |-> r.ds, th |-> [th EXCEPT !.pc = "done", !.out = r.out]]

\* the value reset_daily_state assigns to key
ResetValue(key, initial_balance) ==
  ResetDailyState(DailyStateInit, initial_balance)[key]

\* one assignment of reset_daily_state
ResetStatement(ds, th) ==
  LET i    == CHOOSE k \in 1..Len(ResetOrder) : ResetOrder[k] = th.pc
      ds2  == [ds EXCEPT ![th.pc] = ResetValue(th.pc, th.req.initial_balance)]
  IN  IF i = Len(ResetOrder)
      THEN End([ds |-> ds2, out |-> Returned("reset_complete")], th)
      ELSE Goto(ds2, th, ResetOrder[i + 1])

\* one statement (or read-only block) of decide_action, at th.pc
DecideStatement(ds, th) ==
  LET snapshot        == th.req.snapshot
      balance         == Balance(snapshot)
      current_balance == balance.num
      pnl_pct         == PnlPctOf(snapshot)
  IN  CASE th.pc = "peak" ->
             IF IsNull(balance) THEN End(Fault(ds, MsgNoneCompare), th)
             ELSE Goto(UpdatePeak(ds, current_balance), th, "cb1")
        [] th.pc = "cb1" ->
             IF ds.balance_at_start = 0
             THEN End(Fault(ds, MsgDivisionByZero), th)
             ELSE
               LET loss_pct ==
                     RatMul(Rat(current_balance - ds.balance_at_start,
                                ds.balance_at_start), RatInt(100))
               IN  IF RatLess(loss_pct, RatInt(DailyLossLimit))
                   THEN End(CloseOrHold(ds, snapshot,
                                        "Daily loss limit hit (-40%)",
                                        "Daily loss limit - no new trades"),
                            th)
                   ELSE Goto(ds, [th EXCEPT !.loss_pct = loss_pct], "cb2")
        [] th.pc = "cb2" ->
             IF RatLess(RatInt(ProfitLockThreshold), th.loss_pct)
                  /\ ~ds.profit_locked
             THEN Goto([ds EXCEPT !.profit_locked = TRUE], th, "cb3")
             ELSE Goto(ds, th, "cb3")
        [] th.pc = "cb3" ->
             IF ds.trades_today >= ds.max_daily_trades
             THEN End(CloseOrHold(ds, snapshot, "Max daily trades reached",
                                  "Trade limit reached"), th)
             ELSE Goto(ds, th, "cb4")
        [] th.pc = "cb4" ->
             IF ds.consecutive_losses >= CoolingLosses
             THEN
               LET time_since_last ==
                     MinuteOfDay(snapshot) - ds.last_trade_minute
               IN  IF time_since_last < CoolingMinutes
                   THEN End(Done(ds, Decision("HOLD",
                              <<"Cooling off (",
                                CoolingMinutes - time_since_last,
                                "min left)">>)), th)
                   ELSE Goto([ds EXCEPT !.consecutive_losses = 0], th, "cb5")
             ELSE Goto(ds, th, "cb5")
        [] th.pc = "cb5" ->
             IF ds.peak_balance = 0 THEN End(Fault(ds, MsgDivisionByZero), th)
             ELSE IF RatLess(RatInt(DrawdownLimit),
                             RatMul(Rat(ds.peak_balance - current_balance,
                                        ds.peak_balance), RatInt(100)))
                       /\ IsOpen(snapshot)
             THEN End(Done(ds, Decision("CLOSE",
                        <<"Drawdown protection (25% from peak)">>)), th)
             ELSE Goto(ds, th, "cb6")
        [] th.pc = "cb6" ->
             IF MinuteOfDay(snapshot) < TradingStartDelay
             THEN End(Done(ds, Decision("HOLD",
                        <<"Market opening period - waiting">>)), th)
             ELSE IF MinutesLeft(snapshot) < TradingEndBuffer
             THEN End(CloseOrHold(ds, snapshot, "End of day risk management",
                                  "Too close to EOD"), th)
             ELSE Goto(ds, th, "cb7")
        [] th.pc = "cb7" ->
             IF ds.profit_locked /\ ds.trades_today >= ProfitLockTrades
             THEN End(CloseOrHold(ds, snapshot,
                                  "Profit protected - reducing activity",
                                  "Protecting +40% profit"), th)
             ELSE Goto(ds, th, "manage")
        [] th.pc = "manage" ->
             IF IsOpen(snapshot)
             THEN
               LET exit == ShouldClosePosition(Position(snapshot))
               IN  IF HasRaised(exit) THEN End(Fault(ds, exit.exc), th)
                   ELSE IF exit.ret.close THEN Goto(ds, th, "streak_load")
                   ELSE End(Done(ds, Decision("HOLD",
                              <<"Monitoring: ", pnl_pct>>)), th)
             ELSE End(EntryLogic(ds, snapshot, current_balance), th)
        [] th.pc = "streak_load" ->
             Goto(ds, [th EXCEPT !.tmp = IF pnl_pct > 0
                                         THEN ds.consecutive_wins
                                         ELSE ds.consecutive_losses],
                  "streak_store")
        [] th.pc = "streak_store" ->
             IF pnl_pct > 0
             THEN Goto([ds EXCEPT !.consecutive_wins = th.tmp + 1], th,
                       "streak_zero")
             ELSE Goto([ds EXCEPT !.consecutive_losses = th.tmp + 1], th,
                       "streak_zero")
        [] th.pc = "streak_zero" ->
             IF pnl_pct > 0
             THEN Goto([ds EXCEPT !.consecutive_losses = 0], th, "log")
             ELSE Goto([ds EXCEPT !.consecutive_wins = 0], th, "log")
        [] th.pc = "log" ->
             IF pnl_pct > 0
             THEN Goto([ds EXCEPT !.winning_trades = Append(@, pnl_pct)], th,
                       "trades_load")
             ELSE Goto([ds EXCEPT !.losing_trades = Append(@, pnl_pct)], th,
                       "trades_load")
        [] th.pc = "trades_load" ->
             Goto(ds, [th EXCEPT !.tmp = ds.trades_today], "trades_store")
        [] th.pc = "trades_store" ->
             Goto([ds EXCEPT !.trades_today = th.tmp + 1], th, "minute")
        [] th.pc = "minute" ->
             End(Done([ds EXCEPT !.last_trade_minute = MinuteOfDay(snapshot)],
                      Decision("CLOSE",
                               ShouldClosePosition(Position(snapshot))
                                 .ret.reason)), th)

\* the next statement of thread th
Statement(ds, th) ==
  IF th.req.kind = "tick" THEN DecideStatement(ds, th)
  ELSE ResetStatement(ds, th)

\* a losing position at its stop, at minute 60
ThreadLossSnapshot ==
  Snapshot(None, Some(LossPosition), <<Some(60), Some(900)>>,
           Market(None, None, None))

\* no position and one rising ticker, at minute 60
ThreadEntrySnapshot ==
  Snapshot(None, None, <<Some(60), Some(900)>>,
           Market(Some(Dict1("AAA", Info(Some(22)))), Some(<<"AAA">>),
                  Some(Dict1("AAA", Rising(100, 100)))))

\* the requests that overlap
ThreadRequests ==
  {TickRequest(ThreadLossSnapshot), TickRequest(ThreadEntrySnapshot),
   ResetRequest(InitialBalanceDefault)}

\* requests overlap while fewer than MaxThreadTrades trades are counted
MaxThreadTrades == 3

AllDone == \A i \in 1..Len(threads) : threads[i].pc = "done"

\* two requests arrive together and each gets its thread
Arrive(r1, r2) ==
  /\ threads = <<>>
  /\ daily_state.trades_today < MaxThreadTrades
  /\ Len(daily_state.losing_trades) < MaxThreadTrades
  /\ threads' = <<Thread(r1), Thread(r2)>>
  /\ shared_start' = daily_state
  /\ UNCHANGED <<daily_state, tick_pc, data, outcome, response, resent,
                 session_day,
                 args, result, book>>

\* the interpreter runs the next statement of thread i
Step(i) ==
  /\ i \in 1..Len(threads)
  /\ threads[i].pc # "done"
  /\ \E r \in {Statement(daily_state, threads[i])} :
       /\ daily_state' = r.ds
       /\ threads' = [threads EXCEPT ![i] = r.th]
  /\ UNCHANGED <<tick_pc, data, outcome, response, resent, session_day,
                 shared_start,
                 args, result, book>>

\* both handlers have answered
Collect ==
  /\ threads # <<>>
  /\ AllDone
  /\ threads' = <<>>
  /\ shared_start' = daily_state
  /\ UNCHANGED <<daily_state, tick_pc, data, outcome, response, resent,
                 session_day,
                 args, result, book>>

ArriveAny == \E r1, r2 \in ThreadRequests : Arrive(r1, r2)

StepAny == \E i \in 1..2 : Step(i)

NextThreads == ArriveAny \/ StepAny \/ Collect

SpecThreads == Init /\ [][NextThreads]_vars

---------------------------------------------------------------------------
(* Probes.  SpecDecide drives the session state with the few snapshots     *)
(* that change it (a losing position at its stop, a balance 50% up) as far *)
(* as the trade limit, and from every session state on the way sends one   *)
(* probe: any balance, time, position and market.                          *)

\* a position the exit logic holds: +5% at leverage 6
HoldPosition == OpenPosition(Some(5 * PctScale), Some(6))

\* one falling ticker, bearish by 30%
FallingMarket ==
  Market(Some(Dict1("BBB", Info(Some(-30)))), Some(<<"BBB">>),
         Some(Dict1("BBB", Falling(100, 100))))

\* one rising ticker, bullish by 22%
RisingMarket ==
  Market(Some(Dict1("AAA", Info(Some(22)))), Some(<<"AAA">>),
         Some(Dict1("AAA", Rising(100, 100))))

NoMarket == Market(None, None, None)

\* the snapshots that move the session state on
DriveSnapshots ==
  {Snapshot(None, Some(LossPosition), t, NoMarket) :
     t \in {<<Some(30), Some(930)>>, <<Some(60), Some(900)>>}}
  \cup {Snapshot(Some([balance |-> Some(Num(1500))]), None,
                 <<Some(60), Some(900)>>, NoMarket)}

ProbeAccounts ==
  {None, Some([balance |-> Some(Null)])}
    \cup {Some([balance |-> Some(Num(b))]) : b \in {500, 1500}}

ProbeTimes ==
  {<<None, None>>, <<Some(10), Some(950)>>, <<Some(59), Some(901)>>,
   <<Some(60), Some(900)>>, <<Some(90), Some(870)>>, <<Some(60), None>>,
   <<Some(930), Some(30)>>}

\* (position, market) of a probe
ProbePositions ==
  {<<Some(p), NoMarket>> :
     p \in {WinPosition, LossPosition, HoldPosition,
            OpenPosition(Some(-4 * PctScale), Some(0))}}
  \cup {<<None, m>> : m \in {NoMarket, RisingMarket, FallingMarket}}
  \cup {<<Some(ClosedPosition), RisingMarket>>}

ProbeSnapshots ==
  {Snapshot(a, pm[1], t, pm[2]) :
     a \in ProbeAccounts, t \in ProbeTimes, pm \in ProbePositions}

\* the collaborator posts one of the snapshots that move the state on
SendDrive == \E s \in DriveSnapshots : Send(s)

\* the collaborator posts a probe
SendProbe == \E s \in ProbeSnapshots : Send(s)

\* the answer to a driving snapshot is read and the next request can come;
\* a probe is the last request of its run
DeliverDrive == data \in DriveSnapshots /\ Deliver

NextDecide == SendDrive \/ SendProbe \/ Tick \/ DeliverDrive

SpecDecide == Init /\ [][NextDecide]_vars

---------------------------------------------------------------------------
(* The collaborator's book.  In SpecBook the collaborator executes every   *)
(* decision it is answered: an OPEN_* opens a position at the decision's   *)
(* leverage, a CLOSE closes it, and the next snapshot reports the position *)
(* it holds.  No reset occurs.                                             *)

\* losing positions are reported while fewer than MaxBookTrades trades are
\* counted
MaxBookTrades == 2

\* data["account"] of a book snapshot: the default balance or one 50% up
BookAccounts == {None, Some([balance |-> Some(Num(1500))])}

\* data["position"] of the position held, at +5% or at -25%
BookPositions ==
  {Some(OpenPosition(Some(pnl_pct), Some(book.leverage))) :
     pnl_pct \in {5 * PctScale} \cup
       (IF daily_state.trades_today < MaxBookTrades
        THEN {-25 * PctScale} ELSE {})}

\* the snapshots the collaborator can send for its book, at minute 60
BookSnapshots ==
  IF book.is_open
  THEN {Snapshot(a, p, <<Some(60), Some(900)>>, NoMarket) :
          a \in BookAccounts, p \in BookPositions}
  ELSE {Snapshot(a, None, <<Some(60), Some(900)>>, RisingMarket) :
          a \in BookAccounts}

\* the collaborator posts a snapshot of its book, as long as the opens it
\* counts have not passed max_daily_trades
SendBook ==
  /\ book.opens <= MaxDailyTrades
  /\ \E s \in BookSnapshots : Send(s)

\* the book after the collaborator executed decision d
Executed(d) ==
  IF d.action \in {"OPEN_LONG", "OPEN_SHORT"}
  THEN [is_open |-> TRUE, leverage |-> d.leverage, opens |-> book.opens + 1]
  ELSE IF d.action = "CLOSE" THEN [book EXCEPT !.is_open = FALSE]
  ELSE book

\* the collaborator reads the answer and executes it
Execute ==
  /\ tick_pc = "replied"
  /\ book' = Executed(response)
  /\ tick_pc' = "idle"
  /\ data' = NoSnapshot
  /\ outcome' = NoOutcome
  /\ response' = NoOutcome
  /\ resent' = FALSE
  /\ UNCHANGED <<daily_state, session_day, threads, shared_start, args,
                 result>>

NextBook == SendBook \/ Tick \/ Execute

SpecBook == Init /\ [][NextBook]_vars

---------------------------------------------------------------------------
(* Function specifications.  Each one draws the arguments of one function  *)
(* of strategy.py from a bounded set and calls the function once.          *)

\* the call of a function specification has not been made yet
Pending == result = NoOutcome

\* unrealized_pnl_pct values around every threshold of the exit logic, in
\* hundredths of a percent
ExitPnls ==
  {-2500, -2001, -2000, -1999, -501, -500, -376, -375, -374, -301, -300,
   -299, -251, -250, -249, -215, -214, -188, -187, 0, 100, 199, 200, 499,
   500, 799, 800, 1499, 1500, 1600}

\* the leverage of a position: absent, 0, and 1 to MaxLeverage
MaxLeverage == 8

ExitPositions ==
  {OpenPosition(pnl_pct, leverage) :
     pnl_pct \in {None} \cup {Some(p) : p \in ExitPnls},
     leverage \in {None} \cup {Some(l) : l \in 0..MaxLeverage}}

InitExit == ServiceInit /\ args \in ExitPositions

\* should_close_position(position)
EvaluateExit ==
  /\ Pending
  /\ result' = ShouldClosePosition(args)
  /\ UNCHANGED <<daily_state, tick_pc, data, outcome, response, resent,
                 session_day, threads, shared_start, args, book>>

NextExit == EvaluateExit

SpecExit == InitExit /\ [][NextExit]_vars

\* (consecutive_losses, consecutive_wins) of a session: one of them is 0
SizerStreaks == {<<0, 0>>, <<1, 0>>, <<2, 0>>, <<3, 0>>, <<0, 1>>, <<0, 2>>}

\* change_24h of an analysis (20 <= |change_24h| <= 100), around the bands
SizerChanges == {-100, -81, -30, 20, 25, 26, 40, 41, 60, 61, 80, 81, 100}

\* volatility squared, around the bands at 4, 6 and 8
SizerVolatilities == {RatInt(v) : v \in {0, 16, 17, 36, 37, 64, 65}}

SizerArgs ==
  [streak           : SizerStreaks,
   balance_at_start : {1000, 0},
   current_balance  : {1000, 800, 799, 1200},
   change_24h       : SizerChanges,
   volatility_sq    : SizerVolatilities]

\* the session state the sizer reads
SizerState(a) ==
  [DailyStateInit EXCEPT !.consecutive_losses = a.streak[1],
                         !.consecutive_wins   = a.streak[2],
                         !.balance_at_start   = a.balance_at_start,
                         !.peak_balance       =
                           Max(a.balance_at_start, a.current_balance)]

\* the keys of an analysis the sizer reads
SizerAnalysis(a) ==
  [change_24h |-> a.change_24h, volatility_sq |-> a.volatility_sq]

InitSizer == ServiceInit /\ args \in SizerArgs

\* calculate_position_size(analysis, current_balance)
EvaluateSize ==
  /\ Pending
  /\ result' = CalculatePositionSize(SizerState(args), SizerAnalysis(args),
                                     args.current_balance)
  /\ UNCHANGED <<daily_state, tick_pc, data, outcome, response, resent,
                 session_day, threads, shared_start, args, book>>

NextSizer == EvaluateSize

SpecSizer == InitSizer /\ [][NextSizer]_vars

\* 60 candles rising 8000 -> 8400 in the last four, with one pullback
Gentle(volume_old, volume_new) ==
  Flat(8000, volume_old, 30) \o Flat(8000, volume_new, 26)
    \o Zigzag(8400, 8000, volume_new, 3) \o Flat(8400, volume_new, 1)

\* what a snapshot holds for one ticker: its market_data entry (or none)
\* and its history (or none)
Profile(info, candles) == [info |-> info, candles |-> candles]

SelectProfiles ==
  {Profile(None, Some(Rising(100, 100))),
   Profile(Some(Info(Some(30))), None),
   Profile(Some(Info(Some(30))), Some(Short(100))),
   Profile(Some(Info(Some(30))), Some(Rising(100, 100))),
   Profile(Some(Info(Some(22))), Some(Rising(100, 100))),
   Profile(Some(Info(Some(20))), Some(Gentle(100, 100))),
   Profile(Some(Info(Some(22))), Some(Choppy(100, 100))),
   Profile(Some(Info(Some(-30))), Some(Falling(100, 100))),
   Profile(Some(Info(None)), Some(Rising(100, 100)))}

SelectTickers == {"AAA", "BBB"}

\* qualifying_tickers and the profile of each ticker
SelectArgs ==
  [qualifying : {<<"AAA", "BBB">>, <<"BBB", "AAA">>, <<"BBB">>},
   profile    : [SelectTickers -> SelectProfiles]]

\* market_data of the arguments: the tickers that have an entry
SelectMarketData(a) ==
  [x \in {k \in SelectTickers : ~IsNone(a.profile[k].info)} |->
     a.profile[x].info[1]]

\* history of the arguments: the tickers that have candles
SelectHistory(a) ==
  [x \in {k \in SelectTickers : ~IsNone(a.profile[k].candles)} |->
     a.profile[x].candles[1]]

InitSelect == ServiceInit /\ args \in SelectArgs

\* select_best_entry(market_data, qualifying_tickers, history)
EvaluateSelect ==
  /\ Pending
  /\ result' = SelectBestEntry(SelectMarketData(args), args.qualifying,
                               SelectHistory(args))
  /\ UNCHANGED <<daily_state, tick_pc, data, outcome, response, resent,
                 session_day, threads, shared_start, args, book>>

NextSelect == EvaluateSelect

SpecSelect == InitSelect /\ [][NextSelect]_vars

\* 60 candles: 30 at price old, 28 at price base, then c1 and c2
Ending(old, base, c1, c2, volume_old, volume_new) ==
  Flat(old, volume_old, 30) \o Flat(base, volume_new, 28)
    \o <<Candle(c1, volume_new), Candle(c2, volume_new)>>

\* info["change_24h_pct"] around the limits 20 and 100, both signs
ScreenChanges == {-101, -100, -30, -20, -19, 0, 19, 20, 30, 100, 101}

\* market_data[ticker]: with a change_24h_pct or without
ScreenInfos == {Info(None)} \cup {Info(Some(c)) : c \in ScreenChanges}

\* history[ticker]: none, 10 and 59 candles, and 60 candles with the trend
\* up, down, mixed, flat or cut by a start price of 0, the volume ratio at
\* 1, 0.8, 0.79 and over an older volume of 0, the RSI at 57.3, 43.0, 80,
\* 83.3, 100, 20, 16.7 and 0
ScreenCandles ==
  {<<>>, Short(100), Tail(Rising(100, 100)),
   Rising(100, 100), Rising(100, 80), Rising(100, 79), Rising(0, 100),
   Falling(100, 100), Falling(100, 79), Choppy(100, 100),
   Flat(8000, 100, 60),
   Ending(7600, 8000, 10000, 9500, 100, 100),
   Ending(7600, 8000, 10000, 9600, 100, 100),
   Ending(7600, 8000, 8400, 8820, 100, 100),
   Ending(12000, 10000, 8000, 8500, 100, 100),
   Ending(12000, 10000, 8000, 8400, 100, 100),
   Ending(10000, 9261, 8820, 8400, 100, 100),
   Ending(12000, 8000, 10000, 9500, 100, 100),
   Ending(0, 8000, 10000, 9500, 100, 100)}

ScreenTicker == "AAA"

ScreenArgs == [info : ScreenInfos, candles : ScreenCandles]

InitScreen == ServiceInit /\ args \in ScreenArgs

\* analyze_ticker(ticker, info, history)
EvaluateAnalyze ==
  /\ Pending
  /\ result' = AnalyzeTicker(ScreenTicker, args.info,
                             Dict1(ScreenTicker, args.candles))
  /\ UNCHANGED <<daily_state, tick_pc, data, outcome, response, resent,
                 session_day, threads, shared_start, args, book>>

\* the snapshot whose one qualifying ticker is the ticker analyzed: no
\* position, minute 60
ScreenSnapshot(a) ==
  Snapshot(None, None, <<Some(60), Some(900)>>,
           Market(Some(Dict1(ScreenTicker, a.info)), Some(<<ScreenTicker>>),
                  Some(Dict1(ScreenTicker, a.candles))))

\* the collaborator posts that snapshot
SendScreen == ~Pending /\ Send(ScreenSnapshot(args))

NextScreen == EvaluateAnalyze \/ SendScreen \/ Tick

SpecScreen == InitScreen /\ [][NextScreen]_vars

---------------------------------------------------------------------------
(* Properties of the request-at-a-time service (Spec).                     *)

\* a step in which tick() runs decide_action on the received snapshot
TickStep == tick_pc = "received" /\ tick_pc' = "replied"

\* a state in which tick() has just answered
Replied == tick_pc = "replied"

\* the snapshot carries a balance decide_action can compute with
HasBalance(snapshot) == ~IsNull(Balance(snapshot))

\* (balance - balance_at_start) / balance_at_start * 100 < -40
DailyLossBreached(ds, snapshot) ==
  /\ HasBalance(snapshot)
  /\ ds.balance_at_start > 0
  /\ (Balance(snapshot).num - ds.balance_at_start) * 100
       < DailyLossLimit * ds.balance_at_start

MaxTradesReached(ds) == ds.trades_today >= ds.max_daily_trades

DailyLossDecision(snapshot) ==
  IF IsOpen(snapshot)
  THEN Decision("CLOSE", <<"Daily loss limit hit (-40%)">>)
  ELSE Decision("HOLD", <<"Daily loss limit - no new trades">>)

\* C1: whenever the day's balance change is below -40% and trades_today has
\* reached max_daily_trades in the same call, decide_action returns the
\* decision of the daily-loss-limit breaker, not that of the max-trades one.
C1BreakerOrdering ==
  [][(TickStep /\ DailyLossBreached(daily_state, data)
        /\ MaxTradesReached(daily_state))
       => outcome' = Returned(DailyLossDecision(data))]_vars

\* C1 witness: a call answered with both breakers' conditions standing
C1Witness ==
  /\ Replied
  /\ DailyLossBreached(daily_state, data)
  /\ MaxTradesReached(daily_state)
  /\ ~HasRaised(outcome)

\* the action decide_action returned, "" when it raised
ActionOf(out) == IF HasRaised(out) THEN "" ELSE out.ret.action

\* the reasons with which the exit logic closes a position
ExitReasons ==
  {"Major profit target: ", "Profit target: ", "Trailing stop from peak",
   "Stop loss: ", "Early exit on small loss: "}

\* decide_action returned the CLOSE its exit logic decided
IsRealizedClose(out) ==
  ActionOf(out) = "CLOSE" /\ out.ret.reason[1] \in ExitReasons

\* C2: every decide_action call leaves trades_today unchanged or adds exactly
\* 1 to it, and adds 1 only when the action it returns is CLOSE; a call that
\* returns HOLD, OPEN_LONG or OPEN_SHORT leaves it unchanged.
C2TradesCountCloses ==
  [][TickStep =>
       \/ daily_state'.trades_today = daily_state.trades_today
       \/ /\ daily_state'.trades_today = daily_state.trades_today + 1
          /\ ActionOf(outcome') = "CLOSE"]_vars

\* C2 witness: a call that closed a position and counted it as the day's
\* second trade
C2Witness ==
  /\ Replied
  /\ IsRealizedClose(outcome)
  /\ daily_state.trades_today = 2

ResetStep == tick_pc = "idle" /\ tick_pc' = "idle"

\* C4: peak_balance never decreases across steps that are no reset, and
\* after every decide_action call it is at least the balance of the call's
\* snapshot and at least balance_at_start.
C4PeakMonotone ==
  /\ [][~ResetStep =>
          daily_state'.peak_balance >= daily_state.peak_balance]_vars
  /\ [][TickStep =>
          /\ HasBalance(data) =>
               daily_state'.peak_balance >= Balance(data).num
          /\ daily_state'.peak_balance >= daily_state'.balance_at_start]_vars

\* C4 witness: a call with a balance below a peak that an earlier call
\* had raised above balance_at_start
C4Witness ==
  /\ Replied
  /\ HasBalance(data)
  /\ Balance(data).num < daily_state.peak_balance
  /\ daily_state.balance_at_start < daily_state.peak_balance

\* what two answers are compared on: action, ticker, leverage and size_pct
\* of a decision (ticker, leverage and size_pct are absent from HOLD and
\* CLOSE), or the fault raised
Core(out) ==
  IF HasRaised(out) THEN <<"raised", out.exc>>
  ELSE IF out.ret.action \in {"OPEN_LONG", "OPEN_SHORT"}
  THEN <<out.ret.action, out.ret.ticker, out.ret.leverage, out.ret.size_pct>>
  ELSE <<out.ret.action>>

\* C6: a second decide_action call with the identical snapshot, no position
\* open, ends as the first did: same action, ticker, leverage and size_pct,
\* also when the first call raised peak_balance, armed profit_locked or
\* cleared an expired loss-streak cooldown.
C6Idempotent ==
  [][(TickStep /\ resent) => Core(outcome') = Core(outcome)]_vars

\* C6 witness: the second call opened a position as the first had, and the
\* first had cleared the cooldown of three straight losses
C6Witness ==
  /\ Replied
  /\ resent
  /\ ActionOf(outcome) \in {"OPEN_LONG", "OPEN_SHORT"}
  /\ Len(daily_state.losing_trades) = CoolingLosses
  /\ daily_state.winning_trades = <<>>
  /\ daily_state.consecutive_losses = 0

\* C7: decide_action returns a decision, and raises nothing, for every
\* snapshot with absent or malformed fields and every session state that
\* reset(initial_balance) leads to.
C7NeverRaises == Replied => ~HasRaised(outcome)

\* C8: whenever decide_action or the logging of its decision raises, tick()
\* answers HOLD with the reason 'Error occurred: ' and the first 50
\* characters of the message at most; every tick is answered with a decision.
C8SafeHold ==
  Replied =>
    /\ response.action \in {"HOLD", "CLOSE", "OPEN_LONG", "OPEN_SHORT"}
    /\ (HasRaised(outcome) \/ HasRaised(LogTradeDecision(data))) =>
         LET msg == IF HasRaised(outcome) THEN outcome.exc
                    ELSE LogTradeDecision(data).exc
             cut == response.reason[2]
         IN  /\ response.action = "HOLD"
             /\ response.reason[1] = "Error occurred: "
             /\ Len(response.reason) = 2
             /\ Len(cut) = Min(50, Len(msg))
             /\ \A i \in 1..Len(cut) : cut[i] = msg[i]

\* C8 witness: a fault whose message is longer than 50 characters
C8Witness ==
  /\ Replied
  /\ HasRaised(outcome)
  /\ Len(outcome.exc) > 50
  /\ response.action = "HOLD"

\* the tickers of qualifying_tickers that market_data has
Tradable(snapshot) ==
  {Get(snapshot.qualifying_tickers, <<>>)[i] :
     i \in 1..Len(Get(snapshot.qualifying_tickers, <<>>))}
    \cap DOMAIN Get(snapshot.market_data, <<>>)

\* the shape of a decision: one of the four actions with a reason; an OPEN
\* with a tradable ticker, leverage in 2..6 and size_pct in 0..100
WellShaped(decision, snapshot) ==
  /\ decision.action \in {"HOLD", "CLOSE", "OPEN_LONG", "OPEN_SHORT"}
  /\ Len(decision.reason) > 0
  /\ decision.action \in {"OPEN_LONG", "OPEN_SHORT"} =>
       /\ decision.ticker \in Tradable(snapshot)
       /\ decision.leverage \in 2..6
       /\ decision.size_pct \in 0..100

\* C10: every decide_action call returns a decision of that shape.
C10DecisionShape ==
  Replied => (~HasRaised(outcome) /\ WellShaped(outcome.ret, data))

\* every decision decide_action does return has the shape (the calls that
\* raise, C7, return none)
ReturnedDecisionShape ==
  (Replied /\ ~HasRaised(outcome)) => WellShaped(outcome.ret, data)

---------------------------------------------------------------------------
(* Properties of the service across days (SpecDays).                       *)

\* C5: a decide_action call whose snapshot is of another day than the calls
\* before it (no reset between) runs on a reinitialized session state: the
\* trades and the loss streak of the day before are gone, so after the call
\* each counts the call's own close at most.
C5DayRollover ==
  [][(TickStep /\ ~IsNone(session_day) /\ data.day # session_day) =>
       /\ daily_state'.trades_today <= 1
       /\ daily_state'.consecutive_losses <= 1]_vars

---------------------------------------------------------------------------
(* Properties of overlapping requests (SpecThreads).                       *)

\* request req handled alone on session state ds
Handle(ds, req) ==
  IF req.kind = "tick" THEN DecideAction(ds, req.snapshot)
  ELSE [ds  |-> ResetDailyState(ds, req.initial_balance),
        out |-> Returned("reset_complete")]

\* the session state and the two answers after (first, second) ran one
\* after the other from session state ds
Serial(ds, first, second) ==
  LET a == Handle(ds, first)
      b == Handle(a.ds, second)
  IN  <<b.ds, a.out, b.out>>

\* C9: overlapping requests leave the session state and the answers that
\* one of their serial orders leaves.
C9Serializable ==
  (Len(threads) = 2 /\ AllDone) =>
    \/ <<daily_state, threads[1].out, threads[2].out>>
         = Serial(shared_start, threads[1].req, threads[2].req)
    \/ <<daily_state, threads[2].out, threads[1].out>>
         = Serial(shared_start, threads[2].req, threads[1].req)

\* a thread that has run to its end before the other took a step has done
\* what its request does when handled alone
ThreadAloneAgrees ==
  \A i \in 1..Len(threads) :
    (threads[i].pc = "done" /\ threads[3 - i] = Thread(threads[3 - i].req)) =>
      /\ daily_state = Handle(shared_start, threads[i].req).ds
      /\ threads[i].out = Handle(shared_start, threads[i].req).out

---------------------------------------------------------------------------
(* Properties of single calls in every session state (SpecDecide).         *)

Opens == {"OPEN_LONG", "OPEN_SHORT"}

\* the day's balance change can be computed: a numeric balance and a
\* start-of-day balance that is not 0
Computable(ds, snapshot) == HasBalance(snapshot) /\ ds.balance_at_start # 0

\* consecutive_losses >= 3 and less than 30 minutes since last_trade_minute
CoolingDown(ds, snapshot) ==
  /\ ds.consecutive_losses >= CoolingLosses
  /\ MinuteOfDay(snapshot) - ds.last_trade_minute < CoolingMinutes

\* one of the gates before the session-open delay returns a HOLD of its own
\* when no position is open
HoldsBeforeDelay(ds, snapshot) ==
  \/ DailyLossBreached(ds, snapshot)
  \/ MaxTradesReached(ds)
  \/ CoolingDown(ds, snapshot)

OpeningHold == Decision("HOLD", <<"Market opening period - waiting">>)

\* a call with no position open in the first 30 minutes
OpeningCall ==
  TickStep /\ ~IsOpen(data) /\ MinuteOfDay(data) < TradingStartDelay

\* C11 as stated: for any snapshot with no position open and
\* minute_of_day < 30, decide_action returns HOLD with the opening-period
\* reason, whatever the session state and the balance.
C11OpeningHoldAlways ==
  [][OpeningCall => outcome' = Returned(OpeningHold)]_vars

\* C11: for any snapshot with no position open and minute_of_day < 30,
\* whatever market_data, qualifying_tickers and history hold, decide_action
\* returns no OPEN_LONG, OPEN_SHORT or CLOSE; it raises exactly when the
\* balance change cannot be computed, and otherwise returns HOLD, with the
\* opening-period reason exactly when none of the daily-loss, max-trades and
\* cooldown gates fires first.
C11OpeningHold ==
  [][OpeningCall =>
       /\ ActionOf(outcome') \notin Opens \cup {"CLOSE"}
       /\ HasRaised(outcome') <=> ~Computable(daily_state, data)
       /\ ~HasRaised(outcome') =>
            /\ ActionOf(outcome') = "HOLD"
            /\ (outcome' = Returned(OpeningHold))
                 <=> ~HoldsBeforeDelay(daily_state, data)]_vars

\* C11 witness: minute 10, no position, and a market that is entered at
\* minute 60: the answer is the opening-period HOLD
C11Witness ==
  /\ Replied
  /\ ~IsOpen(data)
  /\ data.minute_of_day = Some(10)
  /\ data.market_data = RisingMarket.market_data
  /\ data.history = RisingMarket.history
  /\ outcome = Returned(OpeningHold)

\* (peak_balance - balance) / peak_balance * 100 > 25, the peak being the
\* larger of the session's peak and the balance
DrawdownBreached(ds, snapshot) ==
  /\ HasBalance(snapshot)
  /\ ds.peak_balance > 0
  /\ (ds.peak_balance - Balance(snapshot).num) * 100
       > DrawdownLimit * ds.peak_balance

\* profit_locked is set, or this call's balance change above +40% sets it
LockedIn(ds, snapshot) ==
  \/ ds.profit_locked
  \/ /\ HasBalance(snapshot)
     /\ ds.balance_at_start > 0
     /\ (Balance(snapshot).num - ds.balance_at_start) * 100
          > ProfitLockThreshold * ds.balance_at_start

Throttled(ds, snapshot) ==
  LockedIn(ds, snapshot) /\ ds.trades_today >= ProfitLockTrades

\* the call gets past every circuit breaker to the exit and entry logic
PassesGates(ds, snapshot) ==
  /\ Computable(ds, snapshot)
  /\ ~DailyLossBreached(ds, snapshot)
  /\ ~MaxTradesReached(ds)
  /\ ~CoolingDown(ds, snapshot)
  /\ ~(DrawdownBreached(ds, snapshot) /\ IsOpen(snapshot))
  /\ MinuteOfDay(snapshot) >= TradingStartDelay
  /\ MinutesLeft(snapshot) >= TradingEndBuffer
  /\ ~Throttled(ds, snapshot)

MajorProfitClose ==
  Decision("CLOSE", <<"Major profit target: ", 16 * PctScale>>)

\* a call with a position open at +16%, leverage 4
MajorProfitCall == TickStep /\ data.position = Some(WinPosition)

\* C12 as stated: for a snapshot with a position open at +16%, leverage 4,
\* decide_action returns CLOSE with the reason 'Major profit target',
\* whatever the other fields of the snapshot and the session state.
C12MajorProfitAlways ==
  [][MajorProfitCall => outcome' = Returned(MajorProfitClose)]_vars

\* C12: for a snapshot with a position open at +16%, leverage 4,
\* decide_action returns CLOSE with the reason 'Major profit target' exactly
\* when the call gets past every circuit breaker; a call that a breaker cuts
\* short returns that breaker's CLOSE or HOLD, never a reason of the exit
\* logic.
C12MajorProfit ==
  [][MajorProfitCall =>
       /\ (outcome' = Returned(MajorProfitClose))
            <=> PassesGates(daily_state, data)
       /\ ~PassesGates(daily_state, data) => ~IsRealizedClose(outcome')
       /\ HasRaised(outcome') <=> ~Computable(daily_state, data)]_vars

\* C12 witness: the position at +16% was closed at the major profit target
\* after losses had been counted
C12Witness ==
  /\ Replied
  /\ data.position = Some(WinPosition)
  /\ outcome = Returned(MajorProfitClose)
  /\ daily_state.winning_trades = <<16 * PctScale>>
  /\ Len(daily_state.losing_trades) > 0

\* the call gets as far as the end-of-day buffer: no earlier gate fires
ReachesEndOfDayGate(ds, snapshot) ==
  /\ Computable(ds, snapshot)
  /\ ~DailyLossBreached(ds, snapshot)
  /\ ~MaxTradesReached(ds)
  /\ ~CoolingDown(ds, snapshot)
  /\ ~(DrawdownBreached(ds, snapshot) /\ IsOpen(snapshot))
  /\ MinuteOfDay(snapshot) >= TradingStartDelay

EndOfDayDecision(snapshot) ==
  IF IsOpen(snapshot)
  THEN Decision("CLOSE", <<"End of day risk management">>)
  ELSE Decision("HOLD", <<"Too close to EOD">>)

\* C16: decide_action returns OPEN_LONG or OPEN_SHORT only in a call with a
\* day balance change >= -40%, trades_today < max_daily_trades,
\* minute_of_day >= 30, minutes_remaining >= 45 (absent counts as 0) and not
\* (profit_locked and trades_today >= 15); a call with minutes_remaining < 45
\* in which no earlier gate fires returns CLOSE if a position is open and
\* HOLD otherwise.
C16BreakersOverrideEntry ==
  [][TickStep =>
       /\ ActionOf(outcome') \in Opens =>
            /\ Computable(daily_state, data)
            /\ ~DailyLossBreached(daily_state, data)
            /\ daily_state.trades_today < daily_state.max_daily_trades
            /\ MinuteOfDay(data) >= TradingStartDelay
            /\ MinutesLeft(data) >= TradingEndBuffer
            /\ ~(daily_state.profit_locked
                   /\ daily_state.trades_today >= ProfitLockTrades)
            /\ ~Throttled(daily_state, data)
       /\ (ReachesEndOfDayGate(daily_state, data)
             /\ MinutesLeft(data) < TradingEndBuffer) =>
            outcome' = Returned(EndOfDayDecision(data))]_vars

\* C16 witness: a position is opened with the profit locked and 14 trades
\* counted, one short of the throttle
C16Witness ==
  /\ Replied
  /\ ActionOf(outcome) \in Opens
  /\ daily_state.profit_locked
  /\ daily_state.trades_today = ProfitLockTrades - 1

\* a case of C16: minute 60 with no minutes_remaining closes the open
\* position for the end of the day
EndOfDayCloseWithoutMinutes ==
  /\ Replied
  /\ data.minutes_remaining = None
  /\ data.minute_of_day = Some(60)
  /\ outcome = Returned(Decision("CLOSE", <<"End of day risk management">>))

\* minute_of_day - last_trade_minute of the call
SinceLastTrade(ds, snapshot) == MinuteOfDay(snapshot) - ds.last_trade_minute

\* three straight losses are recorded and the call is cut short neither by
\* a fault nor by the daily-loss or max-trades breaker
StreakCall ==
  /\ TickStep
  /\ daily_state.consecutive_losses >= CoolingLosses
  /\ Computable(daily_state, data)
  /\ ~DailyLossBreached(daily_state, data)
  /\ ~MaxTradesReached(daily_state)

CoolingHold(ds, snapshot) ==
  Decision("HOLD", <<"Cooling off (",
                     CoolingMinutes - SinceLastTrade(ds, snapshot),
                     "min left)">>)

\* the session state with the peak and the profit lock of this call
WithPeakAndLock(ds, snapshot) ==
  [ds EXCEPT !.peak_balance  = Max(ds.peak_balance, Balance(snapshot).num),
             !.profit_locked = LockedIn(ds, snapshot)]

\* the call ended as decide_action ends on session state ds
EndsAsOn(ds) ==
  /\ daily_state' = DecideAction(ds, data).ds
  /\ outcome' = DecideAction(ds, data).out

\* C17: consecutive_losses reaches 3 only by a third straight losing close,
\* which records its minute m; from then on every call with
\* minute_of_day - m < 30 that neither the daily-loss nor the max-trades
\* breaker cuts short returns HOLD, position open or not, and changes
\* nothing but peak_balance and profit_locked; a call with
\* minute_of_day - m >= 30 sets consecutive_losses to 0 and goes on as a
\* call without a streak does; no OPEN_* is returned during the cooldown.
C17Cooldown ==
  /\ [][(TickStep /\ daily_state.consecutive_losses < CoolingLosses
           /\ daily_state'.consecutive_losses >= CoolingLosses) =>
          /\ IsRealizedClose(outcome')
          /\ PnlPctOf(data) <= 0
          /\ daily_state.consecutive_losses = CoolingLosses - 1
          /\ daily_state'.consecutive_losses = CoolingLosses
          /\ daily_state'.last_trade_minute = MinuteOfDay(data)]_vars
  /\ [][(StreakCall /\ SinceLastTrade(daily_state, data) < CoolingMinutes) =>
          /\ outcome' = Returned(CoolingHold(daily_state, data))
          /\ daily_state' = WithPeakAndLock(daily_state, data)]_vars
  /\ [][(StreakCall /\ SinceLastTrade(daily_state, data) >= CoolingMinutes) =>
          /\ EndsAsOn([daily_state EXCEPT !.consecutive_losses = 0])
          /\ daily_state'.consecutive_losses <= 1]_vars
  /\ [][(TickStep /\ CoolingDown(daily_state, data)) =>
          ActionOf(outcome') \notin Opens]_vars

\* C17 witness: 29 minutes after the third straight loss a call with a
\* position open is answered HOLD with one minute of cooldown left
C17Witness ==
  /\ Replied
  /\ IsOpen(data)
  /\ daily_state.consecutive_losses = CoolingLosses
  /\ outcome = Returned(Decision("HOLD", <<"Cooling off (", 1, "min left)">>))

\* a case of C17: 30 minutes after the third straight loss the streak is
\* cleared and a position is opened
OpensAfterCooldown ==
  /\ Replied
  /\ ActionOf(outcome) \in Opens
  /\ daily_state.trades_today = CoolingLosses
  /\ Len(daily_state.losing_trades) = CoolingLosses
  /\ daily_state.consecutive_losses = 0
  /\ MinuteOfDay(data) - daily_state.last_trade_minute = CoolingMinutes

\* the reason of the decision a call returned, <<>> if it raised
ReasonOf(out) == IF HasRaised(out) THEN <<>> ELSE out.ret.reason

\* C19: in every decide call CLOSE is returned only when the snapshot's
\* position is open, and OPEN_LONG/OPEN_SHORT only when the snapshot has no
\* open position (a missing position counts as closed), in every session
\* state and through every circuit-breaker branch.
C19ActionMatchesPosition ==
  [][TickStep =>
       /\ ActionOf(outcome') = "CLOSE" => IsOpen(data)
       /\ ActionOf(outcome') \in Opens => ~IsOpen(data)]_vars

\* a circuit breaker closed the open position of the snapshot
C19Witness ==
  /\ tick_pc = "replied"
  /\ IsOpen(data)
  /\ ActionOf(outcome) = "CLOSE"
  /\ ReasonOf(outcome) = <<"Drawdown protection (25% from peak)">>

\* the reasons with which a call closed an open position
ClosedBy(reason) ==
  /\ tick_pc = "replied"
  /\ IsOpen(data)
  /\ ActionOf(outcome) = "CLOSE"
  /\ ReasonOf(outcome) = <<reason>>

ClosedByDailyLoss == ClosedBy("Daily loss limit hit (-40%)")

ClosedByMaxTrades == ClosedBy("Max daily trades reached")

ClosedByEndOfDay == ClosedBy("End of day risk management")

ClosedByProfitLock == ClosedBy("Profit protected - reducing activity")

\* a breaker fired on a snapshot without an open position and held
BreakerHeldWithoutPosition ==
  /\ tick_pc = "replied"
  /\ ~IsOpen(data)
  /\ ActionOf(outcome) = "HOLD"
  /\ ReasonOf(outcome) = <<"Trade limit reached">>

\* a position that is reported closed lets the entry logic open
OpenedOnClosedPosition ==
  /\ tick_pc = "replied"
  /\ data.position # None
  /\ ~IsOpen(data)
  /\ ActionOf(outcome) \in Opens

---------------------------------------------------------------------------
(* Properties of the exit logic (SpecExit).                                *)

\* position.get("leverage", 1) of the position evaluated
ExitLeverage == Get(args.leverage, 1)

\* position.get("unrealized_pnl_pct", 0) of the position evaluated
ExitPnl == Get(args.unrealized_pnl_pct, 0)

\* pnl% <= threshold, the threshold being -20 for leverage <= 3 and
\* -15 / leverage for leverage > 3
AtStop ==
  IF ExitLeverage <= 3 THEN ExitPnl <= -20 * PctScale
  ELSE ExitPnl * ExitLeverage <= -15 * PctScale

StopLossClose ==
  Returned([close |-> TRUE, reason |-> <<"Stop loss: ", ExitPnl>>])

\* the evaluation ended with the outcome 'Stop loss'
IsStopLoss == ~HasRaised(result) /\ result.ret.reason[1] = "Stop loss: "

\* C13: for every position with pnl% <= threshold (-20 for leverage <= 3,
\* -15 / leverage for leverage > 3) should_close_position returns close with
\* the reason 'Stop loss', and it never returns 'Stop loss' for a pnl% above
\* the threshold.
C13StopLoss ==
  ~Pending =>
    /\ AtStop => result = StopLossClose
    /\ ~AtStop => ~IsStopLoss

\* the stop-loss rule for every leverage but 0
StopLossNonZeroLeverage ==
  (~Pending /\ ExitLeverage # 0) =>
    /\ AtStop => result = StopLossClose
    /\ ~AtStop => ~IsStopLoss

\* the outcome the decision table gives the position evaluated; its rows
\* exclude each other
ExitTable ==
  CASE ExitPnl >= 15 * PctScale ->
         Returned([close |-> TRUE,
                   reason |-> <<"Major profit target: ", ExitPnl>>])
    [] 8 * PctScale <= ExitPnl /\ ExitPnl < 15 * PctScale ->
         Returned([close |-> TRUE, reason |-> <<"Profit target: ", ExitPnl>>])
    [] AtStop -> StopLossClose
    [] ~AtStop /\ ExitPnl < -3 * PctScale ->
         Returned([close |-> TRUE,
                   reason |-> <<"Early exit on small loss: ", ExitPnl>>])
    [] OTHER -> Returned([close |-> FALSE, reason |-> <<"Hold position">>])

\* the evaluation ended with the outcome 'Early exit on small loss'
IsEarlyExit ==
  ~HasRaised(result) /\ result.ret.reason[1] = "Early exit on small loss: "

StopLossAtLeverage5 ==
  /\ args = OpenPosition(Some(-301), Some(5))
  /\ result = Returned([close |-> TRUE, reason |-> <<"Stop loss: ", -301>>])

HeldAtLeverage5 ==
  /\ args = OpenPosition(Some(-299), Some(5))
  /\ result = Returned([close |-> FALSE, reason |-> <<"Hold position">>])

\* between +5% and +8% the position is held: the trailing stop does not fire
HeldInTrailingBand ==
  /\ args = OpenPosition(Some(500), Some(2))
  /\ result = Returned([close |-> FALSE, reason |-> <<"Hold position">>])

---------------------------------------------------------------------------
(* Properties of the position sizer (SpecSizer).                           *)

\* the base band of the analysis sized
SizerBase == BaseSizing(Abs(args.change_24h), args.volatility_sq)

\* consecutive_losses = 2 and no drawdown from the start-of-day balance
LossStreakCall ==
  /\ ~Pending
  /\ args.streak = <<2, 0>>
  /\ args.balance_at_start # 0
  /\ args.current_balance = args.balance_at_start

\* C14 as stated: with consecutive_losses = 2 and zero drawdown the sizer
\* returns half of the band's base size_pct (truncated to an integer) and
\* the band's base leverage minus 1, floored at 2.
C14HalvesSize ==
  LossStreakCall =>
    result = Returned([leverage |-> Max(2, SizerBase.leverage - 1),
                       size_pct |-> SizerBase.size_pct \div 2])

\* C14: with consecutive_losses = 2 and zero drawdown the sizer returns the
\* band's base size_pct multiplied by 0.6 and truncated to an integer, and
\* the band's base leverage minus 1, floored at 2.
C14LossStreakSizing ==
  LossStreakCall =>
    result = Returned([leverage |-> Max(2, SizerBase.leverage - 1),
                       size_pct |-> (SizerBase.size_pct * 6) \div 10])

\* C14 witness: the lowest band (leverage 2, size 25%) sized to leverage 2,
\* the floor, and size 15%
C14Witness ==
  /\ LossStreakCall
  /\ SizerBase = [leverage |-> 2, size_pct |-> 25]
  /\ result = Returned([leverage |-> 2, size_pct |-> 15])

---------------------------------------------------------------------------
(* Properties of the selection of an entry (SpecSelect).                   *)

\* the analysis of the i-th qualifying ticker, which market_data has
AnalysisOf(i) ==
  AnalyzeTicker(args.qualifying[i],
                SelectMarketData(args)[args.qualifying[i]],
                SelectHistory(args))

\* the positions in qualifying_tickers of the tickers market_data has
Present ==
  {i \in 1..Len(args.qualifying) :
     args.qualifying[i] \in DOMAIN SelectMarketData(args)}

\* the positions of the survivors: the tickers with an analysis
Survivors ==
  {i \in Present : ~HasRaised(AnalysisOf(i)) /\ ~IsNone(AnalysisOf(i).ret)}

ScoreOf(i) == AnalysisOf(i).ret[1].score

\* survivor i has the maximum score and is the first in order to have it
IsBest(i) ==
  \A j \in Survivors :
    /\ RatLeq(ScoreOf(j), ScoreOf(i))
    /\ ScoreOf(j) = ScoreOf(i) => i <= j

\* what the selection rule gives: the first survivor of maximum score if
\* that score is at least 15, none otherwise
Selected ==
  IF \E i \in Survivors : IsBest(i) /\ RatLeq(RatInt(15), ScoreOf(i))
  THEN Some(AnalysisOf(CHOOSE i \in Survivors : IsBest(i)).ret[1])
  ELSE None

\* C15: select_best_entry returns the survivor of maximum score among the
\* qualifying tickers present in market_data, the first in order on a tie,
\* and none when there is no survivor or the maximum score is below 15.
C15SelectsBest == ~Pending => result = Returned(Selected)

\* the selection rule whenever every market_data entry has change_24h_pct
SelectsBestOfAnalyzed ==
  (~Pending /\ \A i \in Present : ~HasRaised(AnalysisOf(i))) =>
     result = Returned(Selected)

\* a case of the rule: the only survivors score below 15 and none is returned
SelectedNoneBelowThreshold ==
  /\ ~Pending
  /\ Survivors # {}
  /\ \A i \in Survivors : RatLess(ScoreOf(i), RatInt(15))
  /\ result = Returned(None)

\* a case of the rule: two survivors of one score, the first is returned
SelectedFirstOnTie ==
  /\ ~Pending
  /\ Survivors = {1, 2}
  /\ ScoreOf(1) = ScoreOf(2)
  /\ RatLeq(RatInt(15), ScoreOf(1))
  /\ result = Returned(Some(AnalysisOf(1).ret[1]))
  /\ AnalysisOf(1).ret[1].ticker # AnalysisOf(2).ret[1].ticker

---------------------------------------------------------------------------
(* Properties of the collaborator's book (SpecBook).                       *)

\* C18: between two resets, with every decision executed, decide_action
\* returns at most max_daily_trades OPEN_LONG/OPEN_SHORT decisions.
C18OpensBounded == book.opens <= MaxDailyTrades

---------------------------------------------------------------------------
(* Properties of the trade counter (Spec).                                 *)

\* C20: in every state reachable from a reset by any sequence of decide
\* calls, 0 <= trades_today <= max_daily_trades (30).
C20TradesBounded ==
  /\ daily_state.max_daily_trades = MaxDailyTrades
  /\ 0 <= daily_state.trades_today
  /\ daily_state.trades_today <= daily_state.max_daily_trades

\* with max_daily_trades trades counted, a position at its stop loss is
\* closed by the max-trades gate and the counter stays
C20Witness ==
  /\ tick_pc = "replied"
  /\ daily_state.trades_today = MaxDailyTrades
  /\ data.position = Some(LossPosition)
  /\ ActionOf(outcome) = "CLOSE"
  /\ ReasonOf(outcome) = <<"Max daily trades reached">>

\* a call that changes the counter has passed the max-trades gate, adds one
\* and returns CLOSE
CountsLastTrade ==
  [][(TickStep /\ daily_state'.trades_today # daily_state.trades_today) =>
       /\ daily_state.trades_today < daily_state.max_daily_trades
       /\ daily_state'.trades_today = daily_state.trades_today + 1
       /\ ActionOf(outcome') = "CLOSE"]_vars

---------------------------------------------------------------------------
(* Properties of the profit lock (Spec).                                   *)

\* the call gets as far as the profit-lock throttle of CB7
ReachesThrottle(ds, snapshot) ==
  /\ ReachesEndOfDayGate(ds, snapshot)
  /\ MinutesLeft(snapshot) >= TradingEndBuffer

ThrottleDecision(snapshot) ==
  IF IsOpen(snapshot)
  THEN Decision("CLOSE", <<"Profit protected - reducing activity">>)
  ELSE Decision("HOLD", <<"Protecting +40% profit">>)

\* the day balance change of the call is at most +40%
FallenBack(ds, snapshot) == ~LockedIn([ds EXCEPT !.profit_locked = FALSE],
                                      snapshot)

\* C21: profit_locked becomes true in the first decide call whose day
\* balance change exceeds +40%, that call's own decision already being
\* subject to the throttle; it stays true in every later call until a reset
\* even if the balance falls back; while it is true and trades_today >= 15,
\* every call that passes the earlier gates returns CLOSE (position open) or
\* HOLD (no position), and trades_today no longer increases.
C21ProfitLockLatch ==
  /\ [][TickStep =>
          (daily_state'.profit_locked <=> LockedIn(daily_state, data))]_vars
  /\ [][(daily_state.profit_locked /\ ~daily_state'.profit_locked) =>
          /\ ~TickStep
          /\ daily_state' =
               ResetDailyState(daily_state, daily_state'.balance_at_start)]_vars
  /\ [][(TickStep /\ Throttled(daily_state, data)
           /\ ReachesThrottle(daily_state, data)) =>
          outcome' = Returned(ThrottleDecision(data))]_vars
  /\ [][(TickStep /\ Throttled(daily_state, data)) =>
          daily_state'.trades_today = daily_state.trades_today]_vars

\* locked earlier in the day, the balance back at the start-of-day balance,
\* 15 or more trades counted: a snapshot with no position and a rising
\* ticker is answered by the throttle, not by the entry logic
C21Witness ==
  /\ tick_pc = "replied"
  /\ daily_state.profit_locked
  /\ daily_state.trades_today >= ProfitLockTrades
  /\ daily_state.trades_today < MaxDailyTrades
  /\ FallenBack(daily_state, data)
  /\ ~IsOpen(data)
  /\ data.market_data # None
  /\ outcome = Returned(ThrottleDecision(data))

\* the call that arms the lock is itself throttled
ArmingCallThrottled ==
  /\ tick_pc = "replied"
  /\ daily_state.profit_locked
  /\ ~FallenBack(daily_state, data)
  /\ daily_state.peak_balance = Balance(data).num
  /\ data.position = Some(LossPosition)
  /\ outcome = Returned(ThrottleDecision(data))

---------------------------------------------------------------------------
(* Properties of the candidate screening (SpecScreen).                     *)

\* info["change_24h_pct"] of the ticker screened, 0 if it is missing
ScreenChange ==
  IF IsNone(args.info.change_24h_pct) THEN 0 ELSE args.info.change_24h_pct[1]

ScreenRsi == CalculateRsi(args.candles, 14)

ScreenTrend == CalculateTrendStrength(args.candles, <<15, 30, 60>>)

ScreenVolume == CalculateVolumeTrend(args.candles, 30)

\* the conditions of the screening
Screened ==
  /\ Len(args.candles) >= 60
  /\ ~IsNone(args.info.change_24h_pct)
  /\ 20 <= Abs(ScreenChange) /\ Abs(ScreenChange) <= 100
  /\ ScreenTrend.aligned
  /\ \/ ScreenChange > 0 /\ ScreenTrend.direction = 1
     \/ ScreenChange < 0 /\ ScreenTrend.direction = -1
  /\ RatLeq(Rat(8, 10), ScreenVolume.ratio)
  /\ ScreenChange > 0 =>
       RatLeq(RatInt(40), ScreenRsi) /\ RatLeq(ScreenRsi, RatInt(80))
  /\ ScreenChange < 0 =>
       RatLeq(RatInt(20), ScreenRsi) /\ RatLeq(ScreenRsi, RatInt(60))

\* analyze_ticker returned an analysis
IsAnalysis == ~Pending /\ ~HasRaised(result) /\ result.ret # None

\* C23: analyze_ticker returns an analysis (not null) exactly when the
\* ticker has >= 60 candles, 20 <= |change_24h_pct| <= 100, the trend is
\* aligned with its direction equal in sign to change_24h_pct, the volume
\* ratio is >= 0.8 and the RSI lies in [40, 80] for change > 0 or in
\* [20, 60] for change < 0; the direction returned is LONG iff
\* change_24h_pct > 0; decide_action returns OPEN_LONG only for a positive
\* change with trend direction +1 and OPEN_SHORT only for a negative change
\* with trend direction -1.
C23Screening ==
  /\ ~Pending => (IsAnalysis <=> Screened)
  /\ IsAnalysis => (result.ret[1].direction = "LONG" <=> ScreenChange > 0)
  /\ (tick_pc = "replied" /\ ActionOf(outcome) = "OPEN_LONG") =>
       ScreenChange > 0 /\ ScreenTrend.direction = 1
  /\ (tick_pc = "replied" /\ ActionOf(outcome) = "OPEN_SHORT") =>
       ScreenChange < 0 /\ ScreenTrend.direction = -1

\* a change of +30% with the RSI at the limit 80 is analyzed as LONG and
\* opened long
C23Witness ==
  /\ args.candles = Ending(7600, 8000, 10000, 9500, 100, 100)
  /\ ScreenChange = 30
  /\ ScreenRsi = RatInt(80)
  /\ IsAnalysis
  /\ result.ret[1].direction = "LONG"
  /\ tick_pc = "replied"
  /\ ActionOf(outcome) = "OPEN_LONG"

\* the screening rejected the ticker
IsRejected == ~Pending /\ result = Returned(None)

\* trend up, volume ratio 1, change +30%: rejected for an RSI of 83.3
RejectedAboveRsi80 ==
  /\ args.candles = Ending(7600, 8000, 10000, 9600, 100, 100)
  /\ ScreenChange = 30
  /\ ScreenTrend.direction = 1
  /\ RatLess(RatInt(80), ScreenRsi)
  /\ IsRejected

\* trend down, change -30%: analyzed at an RSI of 20, rejected at 16.7
AnalyzedAtRsi20 ==
  /\ args.candles = Ending(12000, 10000, 8000, 8500, 100, 100)
  /\ ScreenChange = -30
  /\ ScreenRsi = RatInt(20)
  /\ IsAnalysis
  /\ result.ret[1].direction = "SHORT"

RejectedBelowRsi20 ==
  /\ args.candles = Ending(12000, 10000, 8000, 8400, 100, 100)
  /\ ScreenChange = -30
  /\ ScreenTrend.direction = -1
  /\ RatLess(ScreenRsi, RatInt(20))
  /\ IsRejected

\* analyzed at a volume ratio of 0.8, rejected at 0.79
AnalyzedAtVolumeRatio ==
  /\ args.candles = Rising(100, 80)
  /\ ScreenChange = 30
  /\ ScreenVolume.ratio = Rat(8, 10)
  /\ IsAnalysis

RejectedBelowVolumeRatio ==
  /\ args.candles = Rising(100, 79)
  /\ ScreenChange = 30
  /\ IsRejected

\* a change of -30% against a rising trend is rejected
RejectedAgainstTrend ==
  /\ args.candles = Rising(100, 100)
  /\ ScreenChange = -30
  /\ ScreenTrend.direction = 1
  /\ IsRejected

\* analyzed at the limits 20 and 100 of |change_24h_pct|, rejected at 19
\* and 101
AnalyzedAtChangeLimits ==
  /\ args.candles = Rising(100, 100)
  /\ ScreenChange \in {20, 100}
  /\ IsAnalysis

RejectedOutsideChangeLimits ==
  /\ args.candles = Rising(100, 100)
  /\ ScreenChange \in {19, 101}
  /\ IsRejected

\* 59 candles of the rising history are rejected
RejectedAt59Candles ==
  /\ Len(args.candles) = 59
  /\ ScreenChange = 30
  /\ IsRejected

\* a falling ticker is opened short
OpenedShort ==
  /\ tick_pc = "replied"
  /\ ScreenChange < 0
  /\ ScreenTrend.direction = -1
  /\ ActionOf(outcome) = "OPEN_SHORT"

\* 60 candles and no change_24h_pct: the analysis raises
RaisedWithoutChange ==
  /\ ~Pending
  /\ IsNone(args.info.change_24h_pct)
  /\ HasRaised(result)

=============================================================================
